---- MODULE Spec2Model ----
(***************************************************************************)
(* Wallet ledger and purchase/settlement engine of the Lokal platform.     *)
(*                                                                         *)
(* Two backends serve the same logical schema (wallets, agents,            *)
(* transactions, wifi_vouchers, electricity_meters):                       *)
(*   - the FastAPI backend (src/backend/app): every request owns one       *)
(*     SQLAlchemy session; rows are read into the session at an await,     *)
(*     modified in memory and written back as absolute values by the       *)
(*     single db.commit() that ends the handler;                           *)
(*   - the Cloudflare worker (src/backend-cloudflare/src/entry.py): every  *)
(*     DB.prepare(...).run() is its own committed statement.               *)
(* A request is a small process: its pc is the await it is suspended at.   *)
(* Money is counted in cents (Decimal("25.00") is 2500).                   *)
(***************************************************************************)
EXTENDS Integers, Sequences, FiniteSets, TLC

\* ------------------------------------------------------------------ bounds
\* Number of requests issued in one run (all may be in flight together).
MaxRequests == 2

\* ------------------------------------------------------- program constants
WIFI_PRICE == 2500
ELEC_PRICE == 2500
ELEC_KWH == 1000
DAILY_LIMIT == 500000
MONTHLY_LIMIT == 5000000
REFERRAL_BONUS_AMOUNT == 1000
VALIDITY_HOURS == 168

COMMISSION_RATES ==
    [BRONZE |-> 5, SILVER |-> 7, GOLD |-> 10, PLATINUM |-> 12]

\* ---------------------------------------------------------------- universe
ReqIds == 1..MaxRequests
RegisteredUsers == {"u1", "u2"}
Phones == RegisteredUsers \cup {"u3"}
AgentUser == "u1"
Meters == {"m1"}
NoMeter == "none"
NoKey == "none"
Keys == {"k1"}
NoRow == [balance |-> 0, daily_spent |-> 0, monthly_spent |-> 0]

VARIABLES
    users,          \* users table: phone number -> row
    wallets,        \* wallets table: owning user -> row
    agent,          \* the agents row of AgentUser
    transactions,   \* transactions table, in insertion order
    vouchers,       \* wifi_vouchers table, in insertion order
    meters,         \* electricity_meters table: meter -> row
    reqs            \* the requests: id -> handler frame (arguments, pc, session)

vars == <<users, wallets, agent, transactions, vouchers, meters, reqs>>
db == <<users, wallets, agent, transactions, vouchers, meters>>

\* ----------------------------------------------------------------- helpers
\* uuid4 primary keys: distinct for every row a request inserts.
TxnId(r, leg) == 10 * r + leg

\* int(float(price) / 10): one loyalty point per R10.
LoyaltyPoints(amount) == amount \div 1000

RECURSIVE SumSeq(_, _)
SumSeq(f, n) == IF n = 0 THEN 0 ELSE f[n] + SumSeq(f, n - 1)

TxnSet == {transactions[i] : i \in 1..Len(transactions)}

\* select(Transaction).where(Transaction.idempotency_key == key)
TxnsWithKey(k) == {t \in TxnSet : t.idempotency_key = k}
TxnsWithId(id) == {t \in TxnSet : t.id = id}

\* Column(String(100), unique=True, nullable=True): NULL never conflicts.
UniqueKeyViolation_off(k) == FALSE
UniqueKeyViolation(k) == k # NoKey /\ TxnsWithKey(k) # {}

\* generate_transaction_reference(): a fresh code for every row a handler builds.
Reference(id) == <<id>>

NewTxn(id, w, type, amount, before, after, status, method, key, byAgent, product, meter) ==
    [id |-> id, reference |-> Reference(id), wallet |-> w, type |-> type, amount |-> amount,
     balance_before |-> before, balance_after |-> after, status |-> status,
     payment_method |-> method, idempotency_key |-> key, agent |-> byAgent,
     product |-> product, meter |-> meter]

\* activated_at and expires_at are NULL (0) until the voucher is activated.
NewVoucher(u, tid) ==
    [user |-> u, status |-> "UNUSED", transaction_id |-> tid,
     activated_at |-> 0, expires_at |-> 0]

IdleReq ==
    [op |-> "none", pc |-> "idle", user |-> "none", key |-> NoKey,
     amount |-> 0, to |-> "none", meter |-> NoMeter, arg |-> "", tid |-> 0,
     w |-> NoRow, w2 |-> NoRow, ag |-> [float_balance |-> 0, commission_balance |-> 0, total_sales |-> 0,
            monthly_sales |-> 0, tier |-> "BRONZE"], kwh |-> 0, lp |-> 0, isNew |-> FALSE,
     replay |-> FALSE, lost |-> FALSE, applied |-> FALSE, credited |-> FALSE, at |-> "",
     listing |-> {}, now |-> 0, expired |-> {}, days |-> 0, 
     resp |-> [status |-> "none", detail |-> "", txn |-> 0]]

\* The columns of a wallets row a handler works on once the row is loaded.
Snapshot(w) ==
    [balance |-> w.balance, daily_spent |-> w.daily_spent, monthly_spent |-> w.monthly_spent]

InFlight(r) == reqs[r].pc \notin {"idle", "done", "failed"}

\* The handler returned (or raised): the response goes out and the session closes.
Respond(r, status, detail, txn) ==
    reqs' = [reqs EXCEPT ![r].pc = "done",
                         ![r].resp = [status |-> status, detail |-> detail, txn |-> txn]]

\* An IntegrityError out of flush()/commit(): the session rolls back, the
\* handler does not catch it and the client gets a 500.
RespondIntegrityError(r) ==
    reqs' = [reqs EXCEPT ![r].pc = "done", ![r].lost = TRUE,
                         ![r].resp = [status |-> "error", detail |-> "integrity_error", txn |-> 0]]

\* datetime.utcnow() in hours: a reading is never earlier than the readings
\* the requests before it took.
LastReading ==
    CHOOSE t \in {reqs[x].now : x \in ReqIds} : \A x \in ReqIds : reqs[x].now <= t
LaterReadings == {t \in {100, 200, 300} : t >= LastReading}

\* -------------------------------------------------------------------- Init
SeedTopup(id, u, amount) ==
    NewTxn(id, u, "TOPUP", amount, 0, amount, "COMPLETED", "CARD", NoKey, FALSE, "none", NoMeter)

\* u1 can pay for two packages, u2 for one.
InitBalance == [u \in RegisteredUsers |-> IF u = "u1" THEN 2 * WIFI_PRICE ELSE WIFI_PRICE]
\* A top-up the gateway has not yet called back for (initiate_topup's row).
PendingTopup(id, u, amount) ==
    NewTxn(id, u, "TOPUP", amount, InitBalance[u], InitBalance[u], "PENDING", "CARD", NoKey,
           FALSE, "none", NoMeter)

\* The agent's float covers two sales.
InitFloat == 2 * WIFI_PRICE

Init ==
    /\ users = [u \in RegisteredUsers |-> [loyalty_points |-> 0]]
    /\ wallets = [u \in RegisteredUsers |->
                    [balance |-> InitBalance[u], status |-> "ACTIVE",
                     daily_spent |-> 0, monthly_spent |-> 0]]
    /\ agent = [float_balance |-> InitFloat, commission_balance |-> 0,
                total_sales |-> 0, monthly_sales |-> 0, tier |-> "SILVER"]
    /\ transactions = <<SeedTopup(1, "u1", InitBalance["u1"]),
                         SeedTopup(2, "u2", InitBalance["u2"]),
                         PendingTopup(3, "u2", WIFI_PRICE)>>
    /\ vouchers = <<>>
    /\ meters = [m \in Meters |-> [user |-> "u1", kwh_balance |-> 0, status |-> "ON",
                                  unlimited_expires_at |-> 0]]
    /\ reqs = [r \in ReqIds |-> IdleReq]

\* ------------------------------------------------------- request arrival
\* A client issues request r. replay records whether its idempotency key
\* already belongs to a committed Transaction when it arrives.
Arrive(r, op, u, k, amount, to, m, arg, tid) ==
    /\ reqs[r].pc = "idle"
    /\ reqs' = [reqs EXCEPT ![r] =
                 [IdleReq EXCEPT !.op = op, !.pc = "start", !.user = u, !.key = k,
                                 !.amount = amount, !.to = to, !.meter = m, !.arg = arg,
                                 !.tid = tid,
                                 !.replay = (k # NoKey /\ TxnsWithKey(k) # {})]]
    /\ UNCHANGED db

WorkerOps ==
    {"w_topup_wallet", "w_purchase_wifi", "w_purchase_electricity", "w_topup_float",
     "w_process_sale"}

\* A FastAPI request dies at an await (client disconnect, timeout,
\* cancellation, storage error) before the handler reaches its db.commit().
\* Nothing of the request was committed, and its session is discarded with
\* the request.
Fail(r) ==
    /\ InFlight(r) /\ reqs[r].op \notin WorkerOps
    /\ reqs' = [reqs EXCEPT ![r].pc = "failed", ![r].at = reqs[r].pc,
                            ![r].resp = [status |-> "error", detail |-> "cancelled", txn |-> 0]]
    /\ UNCHANGED db

\* A worker request raises or is cancelled between two statements: fetch()
\* answers 500, and every statement already run stays, each having been
\* committed by its own run().
WorkerFail(r) ==
    /\ InFlight(r) /\ reqs[r].op \in WorkerOps
    /\ reqs' = [reqs EXCEPT ![r].pc = "failed", ![r].at = reqs[r].pc,
                            ![r].resp = [status |-> "error", detail |-> "internal", txn |-> 0]]
    /\ UNCHANGED db

\* ============================================================ FastAPI
\* ------------------------------------------------ wifi.py purchase_wifi
\* The balance check left out.
PW_Load_unchecked(r) ==
    LET q == reqs[r]
        w == wallets[q.user]
    IN  /\ q.op = "purchase_wifi" /\ q.pc = "start"
        /\ UNCHANGED db
        /\ IF q.user \notin DOMAIN wallets \/ w.status # "ACTIVE"
           THEN Respond(r, "rejected", "wallet_unavailable", 0)
           ELSE reqs' = [reqs EXCEPT ![r].pc = "idem",
                                     ![r].w = Snapshot(w),
                                     ![r].lp = users[q.user].loyalty_points]

\* Package and wallet are loaded and checked first (lines 53-82).
PW_Load(r) ==
    LET q == reqs[r]
        w == wallets[q.user]
    IN  /\ q.op = "purchase_wifi" /\ q.pc = "start"
        /\ UNCHANGED db
        /\ IF q.user \notin DOMAIN wallets \/ w.status # "ACTIVE"
           THEN Respond(r, "rejected", "wallet_unavailable", 0)
           ELSE IF w.balance < WIFI_PRICE
           THEN Respond(r, "rejected", "insufficient_balance", 0)
           ELSE reqs' = [reqs EXCEPT ![r].pc = "idem",
                           ![r].w = Snapshot(w),
                                     ![r].lp = users[q.user].loyalty_points]

\* The idempotency lookup (lines 84-101).
PW_Idem(r) ==
    LET q == reqs[r]
        existing == TxnsWithKey(q.key)
    IN  /\ q.op = "purchase_wifi" /\ q.pc = "idem"
        /\ UNCHANGED db
        /\ IF q.key # NoKey /\ existing # {}
           THEN Respond(r, "already_processed", "", (CHOOSE t \in existing : TRUE).id)
           ELSE reqs' = [reqs EXCEPT ![r].pc = "flush"]

\* A flush that commits: the debit and the transaction row become visible
\* before the voucher exists.
PW_Flush_autocommit(r) ==
    LET q == reqs[r]
        after == q.w.balance - WIFI_PRICE
    IN  /\ q.op = "purchase_wifi" /\ q.pc = "flush"
        /\ IF UniqueKeyViolation(q.key)
           THEN /\ RespondIntegrityError(r)
                /\ UNCHANGED db
           ELSE /\ wallets' = [wallets EXCEPT ![q.user].balance = after]
                /\ transactions' = Append(transactions,
                      NewTxn(TxnId(r, 2), q.user, "PURCHASE", -WIFI_PRICE, q.w.balance, after,
                             "COMPLETED", "WALLET", NoKey, FALSE, "WIFI", NoMeter))
                /\ reqs' = [reqs EXCEPT ![r].pc = "commit"]
                /\ UNCHANGED <<users, agent, vouchers, meters>>

\* db.add(transaction); await db.flush() (lines 103-126): the wallet UPDATE and
\* the transaction INSERT are sent inside the session's open database
\* transaction; nothing is visible to other sessions.
PW_Flush(r) ==
    LET q == reqs[r]
    IN  /\ q.op = "purchase_wifi" /\ q.pc = "flush"
        /\ UNCHANGED db
        /\ IF UniqueKeyViolation(q.key)
           THEN RespondIntegrityError(r)
           ELSE reqs' = [reqs EXCEPT ![r].pc = "commit"]

\* await db.commit() (lines 128-158): wallet, transaction, voucher and loyalty
\* points become visible together.
PW_Commit(r) ==
    LET q == reqs[r]
        tid == TxnId(r, 1)
        after == q.w.balance - WIFI_PRICE
    IN  /\ q.op = "purchase_wifi" /\ q.pc = "commit"
        /\ IF UniqueKeyViolation(q.key)
           THEN /\ RespondIntegrityError(r)
                /\ UNCHANGED db
           ELSE /\ wallets' = [wallets EXCEPT
                      ![q.user].balance = after,
                      ![q.user].daily_spent = q.w.daily_spent + WIFI_PRICE,
                      ![q.user].monthly_spent = q.w.monthly_spent + WIFI_PRICE]
                /\ transactions' = Append(transactions,
                      NewTxn(tid, q.user, "PURCHASE", -WIFI_PRICE, q.w.balance, after,
                             "COMPLETED", "WALLET", q.key, FALSE, "WIFI", NoMeter))
                /\ vouchers' = Append(vouchers, NewVoucher(q.user, tid))
                /\ users' = [users EXCEPT ![q.user].loyalty_points = q.lp + LoyaltyPoints(WIFI_PRICE)]
                /\ reqs' = [reqs EXCEPT ![r].pc = "done", ![r].applied = TRUE, ![r].credited = TRUE,
                              ![r].resp = [status |-> "ok", detail |-> "", txn |-> tid]]
                /\ UNCHANGED <<agent, meters>>

\* ------------------------------------ electricity.py purchase_electricity
\* Package, then the caller's meter (lines 53-83).
PE_Meter(r) ==
    LET q == reqs[r]
    IN  /\ q.op = "purchase_electricity" /\ q.pc = "start"
        /\ UNCHANGED db
        /\ IF q.meter \notin DOMAIN meters \/ meters[q.meter].user # q.user
           THEN Respond(r, "rejected", "meter_not_found", 0)
           ELSE IF meters[q.meter].status = "TAMPERED"
           THEN Respond(r, "rejected", "meter_tampered", 0)
           ELSE reqs' = [reqs EXCEPT ![r].pc = "wallet",
                                     ![r].kwh = meters[q.meter].kwh_balance]

\* The wallet and the balance check (lines 85-102).
PE_Wallet(r) ==
    LET q == reqs[r]
        w == wallets[q.user]
    IN  /\ q.op = "purchase_electricity" /\ q.pc = "wallet"
        /\ UNCHANGED db
        /\ IF q.user \notin DOMAIN wallets \/ w.status # "ACTIVE"
           THEN Respond(r, "rejected", "wallet_unavailable", 0)
           ELSE IF w.balance < ELEC_PRICE
           THEN Respond(r, "rejected", "insufficient_balance", 0)
           ELSE reqs' = [reqs EXCEPT ![r].pc = "idem",
                           ![r].w = Snapshot(w),
                                     ![r].lp = users[q.user].loyalty_points]

\* The idempotency lookup (lines 104-114).
PE_Idem(r) ==
    LET q == reqs[r]
        existing == TxnsWithKey(q.key)
    IN  /\ q.op = "purchase_electricity" /\ q.pc = "idem"
        /\ UNCHANGED db
        /\ IF q.key # NoKey /\ existing # {}
           THEN Respond(r, "already_processed", "", (CHOOSE t \in existing : TRUE).id)
           ELSE reqs' = [reqs EXCEPT ![r].pc = "commit"]

\* Debit, transaction, meter credit, loyalty points, one commit (lines 116-157).
\* package_type is never read: meter.kwh_balance += package.kwh_amount runs
\* for every package, and for an UNLIMITED one, whose kwh_amount is NULL,
\* it raises TypeError before the commit: a 500 and nothing persisted.
PE_Commit(r) ==
    LET q == reqs[r]
        tid == TxnId(r, 1)
        after == q.w.balance - ELEC_PRICE
    IN  /\ q.op = "purchase_electricity" /\ q.pc = "commit"
        /\ IF q.arg = "UNLIMITED"
           THEN /\ reqs' = [reqs EXCEPT ![r].pc = "done",
                              ![r].resp = [status |-> "error", detail |-> "type_error",
                                           txn |-> 0]]
                /\ UNCHANGED db
           ELSE IF UniqueKeyViolation(q.key)
           THEN /\ RespondIntegrityError(r)
                /\ UNCHANGED db
           ELSE /\ wallets' = [wallets EXCEPT
                      ![q.user].balance = after,
                      ![q.user].daily_spent = q.w.daily_spent + ELEC_PRICE,
                      ![q.user].monthly_spent = q.w.monthly_spent + ELEC_PRICE]
                /\ transactions' = Append(transactions,
                      NewTxn(tid, q.user, "PURCHASE", -ELEC_PRICE, q.w.balance, after,
                             "COMPLETED", "WALLET", q.key, FALSE, "ELECTRICITY", q.meter))
                /\ meters' = [meters EXCEPT ![q.meter].kwh_balance = q.kwh + ELEC_KWH]
                /\ users' = [users EXCEPT ![q.user].loyalty_points = q.lp + LoyaltyPoints(ELEC_PRICE)]
                /\ reqs' = [reqs EXCEPT ![r].pc = "done", ![r].applied = TRUE, ![r].credited = TRUE,
                              ![r].resp = [status |-> "ok", detail |-> "", txn |-> tid]]
                /\ UNCHANGED <<agent, vouchers>>

\* --------------------------------------------- wallet.py transfer_funds
\* The daily limit compared without the amount being sent.
TF_Sender_limit(r) ==
    LET q == reqs[r]
        w == wallets[q.user]
    IN  /\ q.op = "transfer_funds" /\ q.pc = "start"
        /\ UNCHANGED db
        /\ IF q.user \notin DOMAIN wallets \/ w.status # "ACTIVE"
           THEN Respond(r, "rejected", "wallet_unavailable", 0)
           ELSE IF w.balance < q.amount
           THEN Respond(r, "rejected", "insufficient_balance", 0)
           ELSE IF w.daily_spent > DAILY_LIMIT
           THEN Respond(r, "rejected", "daily_limit_exceeded", 0)
           ELSE IF w.monthly_spent + q.amount > MONTHLY_LIMIT
           THEN Respond(r, "rejected", "monthly_limit_exceeded", 0)
           ELSE reqs' = [reqs EXCEPT ![r].pc = "recipient", ![r].w = Snapshot(w)]

\* Sender wallet, balance and spend limits (lines 251-282).
TF_Sender(r) ==
    LET q == reqs[r]
        w == wallets[q.user]
    IN  /\ q.op = "transfer_funds" /\ q.pc = "start"
        /\ UNCHANGED db
        /\ IF q.user \notin DOMAIN wallets \/ w.status # "ACTIVE"
           THEN Respond(r, "rejected", "wallet_unavailable", 0)
           ELSE IF w.balance < q.amount
           THEN Respond(r, "rejected", "insufficient_balance", 0)
           ELSE IF w.daily_spent + q.amount > DAILY_LIMIT
           THEN Respond(r, "rejected", "daily_limit_exceeded", 0)
           ELSE IF w.monthly_spent + q.amount > MONTHLY_LIMIT
           THEN Respond(r, "rejected", "monthly_limit_exceeded", 0)
           ELSE reqs' = [reqs EXCEPT ![r].pc = "recipient", ![r].w = Snapshot(w)]

\* The recipient wallet's status not looked at.
TF_Recipient_anystatus(r) ==
    LET q == reqs[r]
    IN  /\ q.op = "transfer_funds" /\ q.pc = "recipient"
        /\ UNCHANGED db
        /\ IF q.to \notin DOMAIN users
           THEN Respond(r, "rejected", "recipient_not_found", 0)
           ELSE IF q.to = q.user
           THEN Respond(r, "rejected", "self_transfer", 0)
           ELSE IF q.to \notin DOMAIN wallets
           THEN Respond(r, "rejected", "recipient_unavailable", 0)
           ELSE reqs' = [reqs EXCEPT ![r].pc = "idem", ![r].w2 = Snapshot(wallets[q.to])]

\* Recipient user and wallet (lines 284-312).
TF_Recipient(r) ==
    LET q == reqs[r]
    IN  /\ q.op = "transfer_funds" /\ q.pc = "recipient"
        /\ UNCHANGED db
        /\ IF q.to \notin DOMAIN users
           THEN Respond(r, "rejected", "recipient_not_found", 0)
           ELSE IF q.to = q.user
           THEN Respond(r, "rejected", "self_transfer", 0)
           ELSE IF q.to \notin DOMAIN wallets \/ wallets[q.to].status # "ACTIVE"
           THEN Respond(r, "rejected", "recipient_unavailable", 0)
           ELSE reqs' = [reqs EXCEPT ![r].pc = "idem", ![r].w2 = Snapshot(wallets[q.to])]

\* The idempotency lookup (lines 314-326).
TF_Idem(r) ==
    LET q == reqs[r]
        existing == TxnsWithKey(q.key)
    IN  /\ q.op = "transfer_funds" /\ q.pc = "idem"
        /\ UNCHANGED db
        /\ IF q.key # NoKey /\ existing # {}
           THEN Respond(r, "already_processed", "", (CHOOSE t \in existing : TRUE).id)
           ELSE reqs' = [reqs EXCEPT ![r].pc = "commit"]

\* The recipient leg given a reference of its own.
TF_Commit_unlinked(r) ==
    LET q == reqs[r]
        sid == TxnId(r, 1)
        rid == TxnId(r, 2)
    IN  /\ q.op = "transfer_funds" /\ q.pc = "commit"
        /\ IF UniqueKeyViolation(q.key)
           THEN /\ RespondIntegrityError(r)
                /\ UNCHANGED db
           ELSE /\ wallets' = [wallets EXCEPT
                      ![q.user].balance = q.w.balance - q.amount,
                      ![q.user].daily_spent = q.w.daily_spent + q.amount,
                      ![q.user].monthly_spent = q.w.monthly_spent + q.amount,
                      ![q.to].balance = q.w2.balance + q.amount]
                /\ transactions' = transactions \o
                      <<NewTxn(sid, q.user, "TRANSFER", -q.amount, q.w.balance,
                               q.w.balance - q.amount, "COMPLETED", "WALLET", q.key,
                               FALSE, "none", NoMeter),
                        [NewTxn(rid, q.to, "TRANSFER", q.amount, q.w2.balance,
                                q.w2.balance + q.amount, "COMPLETED", "WALLET", NoKey,
                                FALSE, "none", NoMeter)
                            EXCEPT !.reference = Reference(rid)]>>
                /\ reqs' = [reqs EXCEPT ![r].pc = "done", ![r].applied = TRUE,
                              ![r].resp = [status |-> "ok", detail |-> "", txn |-> sid]]
                /\ UNCHANGED <<users, agent, vouchers, meters>>

\* Both legs and both wallets in one commit (lines 328-379).
TF_Commit(r) ==
    LET q == reqs[r]
        sid == TxnId(r, 1)
        rid == TxnId(r, 2)
    IN  /\ q.op = "transfer_funds" /\ q.pc = "commit"
        /\ IF UniqueKeyViolation(q.key)
           THEN /\ RespondIntegrityError(r)
                /\ UNCHANGED db
           ELSE /\ wallets' = [wallets EXCEPT
                      ![q.user].balance = q.w.balance - q.amount,
                      ![q.user].daily_spent = q.w.daily_spent + q.amount,
                      ![q.user].monthly_spent = q.w.monthly_spent + q.amount,
                      ![q.to].balance = q.w2.balance + q.amount]
                /\ transactions' = transactions \o
                      <<NewTxn(sid, q.user, "TRANSFER", -q.amount, q.w.balance,
                               q.w.balance - q.amount, "COMPLETED", "WALLET", q.key,
                               FALSE, "none", NoMeter),
                        [NewTxn(rid, q.to, "TRANSFER", q.amount, q.w2.balance,
                                q.w2.balance + q.amount, "COMPLETED", "WALLET", NoKey,
                                FALSE, "none", NoMeter)
                            EXCEPT !.reference = Reference(sid) \o <<"-R">>]>>
                /\ reqs' = [reqs EXCEPT ![r].pc = "done", ![r].applied = TRUE,
                              ![r].resp = [status |-> "ok", detail |-> "", txn |-> sid]]
                /\ UNCHANGED <<users, agent, vouchers, meters>>

\* --------------------------------------------- wallet.py initiate_topup
\* The caller's wallet (lines 72-87).
IT_Wallet(r) ==
    LET q == reqs[r]
        w == wallets[q.user]
    IN  /\ q.op = "initiate_topup" /\ q.pc = "start"
        /\ UNCHANGED db
        /\ IF q.user \notin DOMAIN wallets
           THEN Respond(r, "rejected", "wallet_not_found", 0)
           ELSE IF w.status # "ACTIVE"
           THEN Respond(r, "rejected", "wallet_unavailable", 0)
           ELSE reqs' = [reqs EXCEPT ![r].pc = "idem", ![r].w = Snapshot(w)]

\* The idempotency lookup (lines 89-101).
IT_Idem(r) ==
    LET q == reqs[r]
        existing == TxnsWithKey(q.key)
    IN  /\ q.op = "initiate_topup" /\ q.pc = "idem"
        /\ UNCHANGED db
        /\ IF q.key # NoKey /\ existing # {}
           THEN Respond(r, "already_processed", "", (CHOOSE t \in existing : TRUE).id)
           ELSE reqs' = [reqs EXCEPT ![r].pc = "commit"]

\* The PENDING transaction inserted whatever its idempotency key.
IT_Commit_nounique(r) ==
    LET q == reqs[r]
        tid == TxnId(r, 1)
    IN  /\ q.op = "initiate_topup" /\ q.pc = "commit"
        /\ transactions' = Append(transactions,
              NewTxn(tid, q.user, "TOPUP", q.amount, q.w.balance, q.w.balance,
                     "PENDING", "CARD", q.key, FALSE, "none", NoMeter))
        /\ reqs' = [reqs EXCEPT ![r].pc = "done", ![r].applied = TRUE,
                      ![r].resp = [status |-> "pending", detail |-> "", txn |-> tid]]
        /\ UNCHANGED <<users, wallets, agent, vouchers, meters>>

\* The PENDING transaction: balance_before and balance_after are both the
\* balance read at load time (lines 103-130).
IT_Commit(r) ==
    LET q == reqs[r]
        tid == TxnId(r, 1)
    IN  /\ q.op = "initiate_topup" /\ q.pc = "commit"
        /\ IF UniqueKeyViolation(q.key)
           THEN /\ RespondIntegrityError(r)
                /\ UNCHANGED db
           ELSE /\ transactions' = Append(transactions,
                      NewTxn(tid, q.user, "TOPUP", q.amount, q.w.balance, q.w.balance,
                             "PENDING", "CARD", q.key, FALSE, "none", NoMeter))
                /\ reqs' = [reqs EXCEPT ![r].pc = "done", ![r].applied = TRUE,
                              ![r].resp = [status |-> "pending", detail |-> "", txn |-> tid]]
                /\ UNCHANGED <<users, wallets, agent, vouchers, meters>>

\* --------------------------------------------- wallet.py topup_callback
\* The transaction the gateway names (lines 139-152).
CB_Txn(r) ==
    LET q == reqs[r]
        found == TxnsWithId(q.tid)
        t == CHOOSE x \in found : TRUE
    IN  /\ q.op = "topup_callback" /\ q.pc = "start"
        /\ UNCHANGED db
        /\ IF found = {}
           THEN Respond(r, "rejected", "transaction_not_found", 0)
           ELSE IF t.status # "PENDING"
           THEN Respond(r, "already_processed", t.status, t.id)
           ELSE reqs' = [reqs EXCEPT ![r].pc = "wallet", ![r].user = t.wallet,
                                     ![r].amount = t.amount]

\* Its wallet (lines 154-158).
CB_Wallet(r) ==
    LET q == reqs[r]
    IN  /\ q.op = "topup_callback" /\ q.pc = "wallet"
        /\ UNCHANGED db
        /\ reqs' = [reqs EXCEPT ![r].pc = "commit", ![r].w = Snapshot(wallets[q.user]),
                                ![r].lp = users[q.user].loyalty_points]

\* Credit on SUCCESS, FAILED otherwise (lines 160-179).
CB_Commit(r) ==
    LET q == reqs[r]
        after == q.w.balance + q.amount
    IN  /\ q.op = "topup_callback" /\ q.pc = "commit"
        /\ IF q.arg = "SUCCESS"
           THEN /\ wallets' = [wallets EXCEPT ![q.user].balance = after]
                /\ transactions' =
                      [i \in 1..Len(transactions) |->
                          IF transactions[i].id = q.tid
                          THEN [transactions[i] EXCEPT !.balance_after = after,
                                                       !.status = "COMPLETED"]
                          ELSE transactions[i]]
                /\ users' = [users EXCEPT
                      ![q.user].loyalty_points = q.lp + LoyaltyPoints(q.amount)]
                /\ reqs' = [reqs EXCEPT ![r].pc = "done", ![r].applied = TRUE,
                              ![r].resp = [status |-> "ok", detail |-> "COMPLETED", txn |-> q.tid]]
           ELSE /\ transactions' =
                      [i \in 1..Len(transactions) |->
                          IF transactions[i].id = q.tid
                          THEN [transactions[i] EXCEPT !.status = "FAILED"]
                          ELSE transactions[i]]
                /\ reqs' = [reqs EXCEPT ![r].pc = "done",
                              ![r].resp = [status |-> "ok", detail |-> "FAILED", txn |-> q.tid]]
                /\ UNCHANGED <<users, wallets>>
        /\ UNCHANGED <<agent, vouchers, meters>>

\* ---------------------------------------------------- agent.py topup_float
\* get_current_agent loads the caller's agents row (lines 35-57).
AgentRow == [float_balance |-> agent.float_balance,
             commission_balance |-> agent.commission_balance,
             total_sales |-> agent.total_sales, monthly_sales |-> agent.monthly_sales,
             tier |-> agent.tier]

AF_Agent(r) ==
    LET q == reqs[r]
    IN  /\ q.op = "topup_float" /\ q.pc = "start"
        /\ UNCHANGED db
        /\ IF q.user # AgentUser
           THEN Respond(r, "rejected", "not_an_agent", 0)
           ELSE reqs' = [reqs EXCEPT ![r].pc = "commit", ![r].ag = AgentRow]

\* agent.float_balance += amount; commit (lines 151-167).
AF_Commit(r) ==
    LET q == reqs[r]
    IN  /\ q.op = "topup_float" /\ q.pc = "commit"
        /\ agent' = [agent EXCEPT !.float_balance = q.ag.float_balance + q.amount]
        /\ reqs' = [reqs EXCEPT ![r].pc = "done", ![r].applied = TRUE,
                      ![r].resp = [status |-> "ok", detail |-> "", txn |-> 0]]
        /\ UNCHANGED <<users, wallets, transactions, vouchers, meters>>

\* -------------------------------------------- agent.py process_transaction
\* price * COMMISSION_RATES[agent.tier]
Commission(price, tier) == (price * COMMISSION_RATES[tier]) \div 100

PT_Agent(r) ==
    LET q == reqs[r]
    IN  /\ q.op = "process_transaction" /\ q.pc = "start"
        /\ UNCHANGED db
        /\ IF q.user # AgentUser
           THEN Respond(r, "rejected", "not_an_agent", 0)
           ELSE reqs' = [reqs EXCEPT ![r].pc = "idem", ![r].ag = AgentRow]

\* The idempotency lookup comes first in this handler (lines 178-188).
PT_Idem(r) ==
    LET q == reqs[r]
        existing == TxnsWithKey(q.key)
    IN  /\ q.op = "process_transaction" /\ q.pc = "idem"
        /\ UNCHANGED db
        /\ IF q.key # NoKey /\ existing # {}
           THEN Respond(r, "already_processed", "", (CHOOSE t \in existing : TRUE).id)
           ELSE reqs' = [reqs EXCEPT ![r].pc = "customer"]

\* Find or create the customer, then the product branch up to its next
\* read of a row that requests change (lines 190-251, 307-324).  A new
\* customer and wallet are flushed inside the open database transaction.
PT_Customer(r) ==
    LET q == reqs[r]
        known == q.to \in DOMAIN users
        withCustomer ==
            [reqs EXCEPT ![r].isNew = ~known,
                         ![r].w2 = IF known THEN Snapshot(wallets[q.to]) ELSE NoRow,
                         ![r].ag.commission_balance =
                             IF known THEN @ ELSE @ + REFERRAL_BONUS_AMOUNT]
    IN  /\ q.op = "process_transaction" /\ q.pc = "customer"
        /\ UNCHANGED db
        /\ IF q.arg = "WIFI"
           THEN IF withCustomer[r].ag.float_balance < WIFI_PRICE
                THEN Respond(r, "rejected", "insufficient_float", 0)
                ELSE IF q.amount < WIFI_PRICE
                THEN Respond(r, "rejected", "insufficient_cash", 0)
                ELSE reqs' = [withCustomer EXCEPT ![r].pc = "commit"]
           ELSE IF q.arg = "ELECTRICITY"
           THEN IF q.meter = NoMeter
                THEN Respond(r, "rejected", "meter_id_required", 0)
                ELSE reqs' = [withCustomer EXCEPT ![r].pc = "meter"]
           ELSE Respond(r, "rejected", "invalid_product_type", 0)

\* The meter named by the request, whoever owns it (lines 326-352).
PT_Meter(r) ==
    LET q == reqs[r]
    IN  /\ q.op = "process_transaction" /\ q.pc = "meter"
        /\ UNCHANGED db
        /\ IF q.meter \notin DOMAIN meters
           THEN Respond(r, "rejected", "meter_not_found", 0)
           ELSE IF q.ag.float_balance < ELEC_PRICE
           THEN Respond(r, "rejected", "insufficient_float", 0)
           ELSE IF q.amount < ELEC_PRICE
           THEN Respond(r, "rejected", "insufficient_cash", 0)
           ELSE reqs' = [reqs EXCEPT ![r].pc = "commit",
                                     ![r].kwh = meters[q.meter].kwh_balance]

\* Float debit, commission, product credit and the transaction record in one
\* commit (lines 253-305, 354-399).  The voucher carries no transaction_id;
\* the record has amount = +price and balance_before = balance_after.
PT_Commit(r) ==
    LET q == reqs[r]
        tid == TxnId(r, 1)
        price == IF q.arg = "WIFI" THEN WIFI_PRICE ELSE ELEC_PRICE
    IN  /\ q.op = "process_transaction" /\ q.pc = "commit"
        /\ IF UniqueKeyViolation(q.key) \/ (q.isNew /\ q.to \in DOMAIN users)
           THEN /\ RespondIntegrityError(r)
                /\ UNCHANGED db
           ELSE /\ users' = IF q.isNew
                            THEN users @@ (q.to :> [loyalty_points |-> 0])
                            ELSE users
                /\ wallets' = IF q.isNew
                              THEN wallets @@ (q.to :> [balance |-> 0, status |-> "ACTIVE",
                                                        daily_spent |-> 0, monthly_spent |-> 0])
                              ELSE wallets
                /\ agent' = [agent EXCEPT
                      !.float_balance = q.ag.float_balance - price,
                      !.total_sales = q.ag.total_sales + price,
                      !.monthly_sales = q.ag.monthly_sales + price,
                      !.commission_balance =
                          q.ag.commission_balance + Commission(price, q.ag.tier)]
                /\ IF q.arg = "WIFI"
                   THEN /\ vouchers' = Append(vouchers, NewVoucher(q.to, 0))
                        /\ UNCHANGED meters
                   ELSE /\ meters' = [meters EXCEPT ![q.meter].kwh_balance = q.kwh + ELEC_KWH]
                        /\ UNCHANGED vouchers
                /\ transactions' = Append(transactions,
                      NewTxn(tid, q.to, "PURCHASE", price, q.w2.balance, q.w2.balance,
                             "COMPLETED", "AGENT", q.key, TRUE, q.arg,
                             IF q.arg = "WIFI" THEN NoMeter ELSE q.meter))
                /\ reqs' = [reqs EXCEPT ![r].pc = "done", ![r].applied = TRUE, ![r].credited = TRUE,
                              ![r].resp = [status |-> "ok", detail |-> "", txn |-> tid]]

\* -------------------------------------------- agent.py withdraw_commission
\* The agents row and the commission check (lines 456-462).
WC_Agent(r) ==
    LET q == reqs[r]
    IN  /\ q.op = "withdraw_commission" /\ q.pc = "start"
        /\ UNCHANGED db
        /\ IF q.user # AgentUser
           THEN Respond(r, "rejected", "not_an_agent", 0)
           ELSE IF q.amount > agent.commission_balance
           THEN Respond(r, "rejected", "insufficient_commission", 0)
           ELSE reqs' = [reqs EXCEPT ![r].ag = AgentRow,
                           ![r].pc = IF q.arg = "WALLET" THEN "wallet" ELSE "commit"]

\* WALLET: the agent-user's wallet (lines 464-475).
WC_Wallet(r) ==
    LET q == reqs[r]
    IN  /\ q.op = "withdraw_commission" /\ q.pc = "wallet"
        /\ UNCHANGED db
        /\ IF q.user \notin DOMAIN wallets
           THEN Respond(r, "rejected", "wallet_not_found", 0)
           ELSE reqs' = [reqs EXCEPT ![r].pc = "commit", ![r].w = Snapshot(wallets[q.user])]

\* The COMMISSION transaction records the credited balance as balance_before.
WC_Commit_before(r) ==
    LET q == reqs[r]
        tid == TxnId(r, 1)
    IN  /\ q.op = "withdraw_commission" /\ q.pc = "commit"
        /\ agent' = [agent EXCEPT !.commission_balance = q.ag.commission_balance - q.amount]
        /\ IF q.arg = "WALLET"
           THEN /\ wallets' = [wallets EXCEPT ![q.user].balance = q.w.balance + q.amount]
                /\ transactions' = Append(transactions,
                      NewTxn(tid, q.user, "COMMISSION", q.amount, q.w.balance + q.amount,
                             q.w.balance + q.amount, "COMPLETED", "WALLET", NoKey,
                             FALSE, "none", NoMeter))
                /\ reqs' = [reqs EXCEPT ![r].pc = "done", ![r].applied = TRUE,
                              ![r].resp = [status |-> "ok", detail |-> "", txn |-> tid]]
           ELSE /\ reqs' = [reqs EXCEPT ![r].pc = "done", ![r].applied = TRUE,
                              ![r].resp = [status |-> "ok", detail |-> "", txn |-> 0]]
                /\ UNCHANGED <<wallets, transactions>>
        /\ UNCHANGED <<users, vouchers, meters>>

\* WALLET: commission debit, wallet credit and a COMMISSION transaction;
\* BANK: the commission debit alone (lines 477-516).
WC_Commit(r) ==
    LET q == reqs[r]
        tid == TxnId(r, 1)
    IN  /\ q.op = "withdraw_commission" /\ q.pc = "commit"
        /\ agent' = [agent EXCEPT !.commission_balance = q.ag.commission_balance - q.amount]
        /\ IF q.arg = "WALLET"
           THEN /\ wallets' = [wallets EXCEPT ![q.user].balance = q.w.balance + q.amount]
                /\ transactions' = Append(transactions,
                      NewTxn(tid, q.user, "COMMISSION", q.amount, q.w.balance,
                             q.w.balance + q.amount, "COMPLETED", "WALLET", NoKey,
                             FALSE, "none", NoMeter))
                /\ reqs' = [reqs EXCEPT ![r].pc = "done", ![r].applied = TRUE,
                              ![r].resp = [status |-> "ok", detail |-> "", txn |-> tid]]
           ELSE /\ reqs' = [reqs EXCEPT ![r].pc = "done", ![r].applied = TRUE,
                              ![r].resp = [status |-> "ok", detail |-> "", txn |-> 0]]
                /\ UNCHANGED <<wallets, transactions>>
        /\ UNCHANGED <<users, vouchers, meters>>

\* ------------------------------------------------ admin.py adjust_wallet
\* Load, add the signed amount, refuse a negative result (lines 293-303).
AW_Wallet(r) ==
    LET q == reqs[r]
    IN  /\ q.op = "adjust_wallet" /\ q.pc = "start"
        /\ UNCHANGED db
        /\ IF q.to \notin DOMAIN wallets
           THEN Respond(r, "rejected", "wallet_not_found", 0)
           ELSE IF wallets[q.to].balance + q.amount < 0
           THEN Respond(r, "rejected", "negative_balance", 0)
           ELSE reqs' = [reqs EXCEPT ![r].pc = "commit", ![r].w = Snapshot(wallets[q.to])]

\* The adjustment transaction: REFUND for a credit, PURCHASE otherwise (lines 305-325).
AW_Commit(r) ==
    LET q == reqs[r]
        tid == TxnId(r, 1)
    IN  /\ q.op = "adjust_wallet" /\ q.pc = "commit"
        /\ wallets' = [wallets EXCEPT ![q.to].balance = q.w.balance + q.amount]
        /\ transactions' = Append(transactions,
              NewTxn(tid, q.to, IF q.amount > 0 THEN "REFUND" ELSE "PURCHASE", q.amount,
                     q.w.balance, q.w.balance + q.amount, "COMPLETED", "none", NoKey,
                     FALSE, "none", NoMeter))
        /\ reqs' = [reqs EXCEPT ![r].pc = "done", ![r].applied = TRUE,
                      ![r].resp = [status |-> "ok", detail |-> "", txn |-> tid]]
        /\ UNCHANGED <<users, agent, vouchers, meters>>

\* -------------------------------------------- admin.py adjust_agent_float
\* Load, add the signed amount, refuse a negative result (lines 433-442).
FA_Agent(r) ==
    LET q == reqs[r]
    IN  /\ q.op = "adjust_agent_float" /\ q.pc = "start"
        /\ UNCHANGED db
        /\ IF agent.float_balance + q.amount < 0
           THEN Respond(r, "rejected", "negative_float", 0)
           ELSE reqs' = [reqs EXCEPT ![r].pc = "commit", ![r].ag = AgentRow]

\* commit (lines 444-450).
FA_Commit(r) ==
    LET q == reqs[r]
    IN  /\ q.op = "adjust_agent_float" /\ q.pc = "commit"
        /\ agent' = [agent EXCEPT !.float_balance = q.ag.float_balance + q.amount]
        /\ reqs' = [reqs EXCEPT ![r].pc = "done", ![r].applied = TRUE,
                      ![r].resp = [status |-> "ok", detail |-> "", txn |-> 0]]
        /\ UNCHANGED <<users, wallets, transactions, vouchers, meters>>

\* ------------------------------------------------ wifi.py activate_voucher
\* The voucher by id and owner, and its status (lines 244-261).
AV_Load(r) ==
    LET q == reqs[r]
    IN  /\ q.op = "activate_voucher" /\ q.pc = "start"
        /\ UNCHANGED db
        /\ IF q.tid \notin 1..Len(vouchers) \/ vouchers[q.tid].user # q.user
           THEN Respond(r, "rejected", "voucher_not_found", 0)
           ELSE IF vouchers[q.tid].status # "UNUSED"
           THEN Respond(r, "rejected", "cannot_activate", 0)
           ELSE reqs' = [reqs EXCEPT ![r].pc = "commit"]

\* status = ACTIVE, activated_at = now, expires_at = now + validity_hours;
\* commit (lines 263-276).
AV_Commit(r) ==
    LET q == reqs[r]
    IN  /\ q.op = "activate_voucher" /\ q.pc = "commit"
        /\ \E now \in LaterReadings :
              /\ vouchers' = [vouchers EXCEPT ![q.tid].status = "ACTIVE",
                                               ![q.tid].activated_at = now,
                                               ![q.tid].expires_at = now + VALIDITY_HOURS]
              /\ reqs' = [reqs EXCEPT ![r].pc = "done", ![r].applied = TRUE, ![r].now = now,
                            ![r].resp = [status |-> "ok", detail |-> "", txn |-> 0]]
        /\ UNCHANGED <<users, wallets, agent, transactions, meters>>

\* ------------------------------------------------------ wifi.py get_usage
\* The caller's vouchers; an ACTIVE one past its expires_at is set EXPIRED
\* (lines 284-308).  Nothing writes data_used_mb, which stays below
\* data_limit_mb, so the DEPLETED branch is never taken.
GU_Load(r) ==
    LET q == reqs[r]
    IN  /\ q.op = "get_usage" /\ q.pc = "start"
        /\ UNCHANGED db
        /\ \E now \in LaterReadings :
              reqs' = [reqs EXCEPT
                  ![r].pc = "commit", ![r].now = now,
                  ![r].expired = {i \in 1..Len(vouchers) :
                                    /\ vouchers[i].user = q.user
                                    /\ vouchers[i].status = "ACTIVE"
                                    /\ now > vouchers[i].expires_at}]

\* commit (line 324): the status of the vouchers found expired is written.
GU_Commit(r) ==
    LET q == reqs[r]
    IN  /\ q.op = "get_usage" /\ q.pc = "commit"
        /\ vouchers' = [i \in 1..Len(vouchers) |->
                           IF i \in q.expired
                           THEN [vouchers[i] EXCEPT !.status = "EXPIRED"]
                           ELSE vouchers[i]]
        /\ reqs' = [reqs EXCEPT ![r].pc = "done",
                      ![r].resp = [status |-> "ok", detail |-> "", txn |-> 0]]
        /\ UNCHANGED <<users, wallets, agent, transactions, meters>>

\* ------------------------------------------- admin.py update_agent_tier
AgentTiers == {"BRONZE", "SILVER", "GOLD", "PLATINUM"}

\* The agents row by id (lines 392-396).
UT_Agent(r) ==
    LET q == reqs[r]
    IN  /\ q.op = "update_agent_tier" /\ q.pc = "start"
        /\ UNCHANGED db
        /\ reqs' = [reqs EXCEPT ![r].pc = "commit", ![r].ag = AgentRow]

\* agent.tier = new_tier; commit (lines 398-401).
UT_Commit(r) ==
    LET q == reqs[r]
    IN  /\ q.op = "update_agent_tier" /\ q.pc = "commit"
        /\ agent' = [agent EXCEPT !.tier = q.arg]
        /\ reqs' = [reqs EXCEPT ![r].pc = "done", ![r].applied = TRUE,
                      ![r].resp = [status |-> "ok", detail |-> "", txn |-> 0]]
        /\ UNCHANGED <<users, wallets, transactions, vouchers, meters>>

\* ------------------------------------------------ agent.py get_commissions
GC_Agent(r) ==
    LET q == reqs[r]
    IN  /\ q.op = "get_commissions" /\ q.pc = "start"
        /\ UNCHANGED db
        /\ IF q.user # AgentUser
           THEN Respond(r, "rejected", "not_an_agent", 0)
           ELSE reqs' = [reqs EXCEPT ![r].pc = "list", ![r].ag = AgentRow]

\* The agent's COMPLETED transactions, each listed with
\* amount * COMMISSION_RATES[agent.tier] (lines 415-445).
GC_List(r) ==
    LET q == reqs[r]
        sales == {t \in TxnSet : t.agent /\ t.status = "COMPLETED"}
    IN  /\ q.op = "get_commissions" /\ q.pc = "list"
        /\ UNCHANGED db
        /\ reqs' = [reqs EXCEPT
              ![r].pc = "done",
              ![r].listing = {[id |-> t.id, amount |-> t.amount,
                               commission |-> Commission(t.amount, q.ag.tier)] : t \in sales},
              ![r].resp = [status |-> "ok", detail |-> "", txn |-> 0]]

\* ================================================== Cloudflare worker
\* Every DB.prepare(...).run() commits on its own; fetch() turns an exception
\* into a 500 without undoing the statements that already ran.

\* ------------------------------------------------ entry.py topup_wallet
\* SELECT the wallet (lines 694-712); the amount is taken as sent.
WT_Read(r) ==
    LET q == reqs[r]
    IN  /\ q.op = "w_topup_wallet" /\ q.pc = "start"
        /\ UNCHANGED db
        /\ IF q.user \notin DOMAIN wallets
           THEN Respond(r, "rejected", "wallet_not_found", 0)
           ELSE reqs' = [reqs EXCEPT ![r].pc = "update", ![r].w = Snapshot(wallets[q.user])]

\* UPDATE wallets SET balance = balance_before + amount (lines 714-716).
WT_Update(r) ==
    LET q == reqs[r]
    IN  /\ q.op = "w_topup_wallet" /\ q.pc = "update"
        /\ wallets' = [wallets EXCEPT ![q.user].balance = q.w.balance + q.amount]
        /\ reqs' = [reqs EXCEPT ![r].pc = "insert_txn", ![r].applied = TRUE]
        /\ UNCHANGED <<users, agent, transactions, vouchers, meters>>

\* INSERT the COMPLETED TOPUP transaction (lines 718-734).
WT_Insert(r) ==
    LET q == reqs[r]
        tid == TxnId(r, 1)
    IN  /\ q.op = "w_topup_wallet" /\ q.pc = "insert_txn"
        /\ transactions' = Append(transactions,
              NewTxn(tid, q.user, "TOPUP", q.amount, q.w.balance, q.w.balance + q.amount,
                     "COMPLETED", "CARD", NoKey, FALSE, "none", NoMeter))
        /\ reqs' = [reqs EXCEPT ![r].pc = "done",
                      ![r].resp = [status |-> "ok", detail |-> "", txn |-> tid]]
        /\ UNCHANGED <<users, wallets, agent, vouchers, meters>>

\* ------------------------------------------------ entry.py purchase_wifi
\* SELECT package and wallet, compare balance and price (lines 789-816).
WW_Read(r) ==
    LET q == reqs[r]
    IN  /\ q.op = "w_purchase_wifi" /\ q.pc = "start"
        /\ UNCHANGED db
        /\ IF q.user \notin DOMAIN wallets
           THEN Respond(r, "rejected", "wallet_not_found", 0)
           ELSE IF wallets[q.user].balance < WIFI_PRICE
           THEN Respond(r, "rejected", "insufficient_balance", 0)
           ELSE reqs' = [reqs EXCEPT ![r].pc = "update", ![r].w = Snapshot(wallets[q.user])]

\* UPDATE wallets SET balance = balance - price (lines 818-822).
WW_Update(r) ==
    LET q == reqs[r]
    IN  /\ q.op = "w_purchase_wifi" /\ q.pc = "update"
        /\ wallets' = [wallets EXCEPT ![q.user].balance = q.w.balance - WIFI_PRICE]
        /\ reqs' = [reqs EXCEPT ![r].pc = "insert_voucher", ![r].applied = TRUE]
        /\ UNCHANGED <<users, agent, transactions, vouchers, meters>>

\* INSERT INTO wifi_vouchers, naming the transaction id still to be
\* inserted (lines 824-841).
WW_Voucher(r) ==
    LET q == reqs[r]
    IN  /\ q.op = "w_purchase_wifi" /\ q.pc = "insert_voucher"
        /\ vouchers' = Append(vouchers, NewVoucher(q.user, TxnId(r, 1)))
        /\ reqs' = [reqs EXCEPT ![r].pc = "insert_txn", ![r].credited = TRUE]
        /\ UNCHANGED <<users, wallets, agent, transactions, meters>>

\* INSERT INTO transactions with amount = price (lines 843-859).
WW_Txn(r) ==
    LET q == reqs[r]
        tid == TxnId(r, 1)
    IN  /\ q.op = "w_purchase_wifi" /\ q.pc = "insert_txn"
        /\ transactions' = Append(transactions,
              NewTxn(tid, q.user, "PURCHASE", WIFI_PRICE, q.w.balance,
                     q.w.balance - WIFI_PRICE, "COMPLETED", "none", NoKey, FALSE,
                     "WIFI", NoMeter))
        /\ reqs' = [reqs EXCEPT ![r].pc = "done",
                      ![r].resp = [status |-> "ok", detail |-> "", txn |-> tid]]
        /\ UNCHANGED <<users, wallets, agent, vouchers, meters>>

\* ------------------------------------------ entry.py purchase_electricity
\* SELECT package, then the caller's meter by number (lines 961-983).
WE_Meter(r) ==
    LET q == reqs[r]
    IN  /\ q.op = "w_purchase_electricity" /\ q.pc = "start"
        /\ UNCHANGED db
        /\ IF q.meter \notin DOMAIN meters \/ meters[q.meter].user # q.user
           THEN Respond(r, "rejected", "meter_not_found", 0)
           ELSE reqs' = [reqs EXCEPT ![r].pc = "wallet",
                                     ![r].kwh = meters[q.meter].kwh_balance]

\* SELECT the wallet, compare balance and price (lines 985-998).
WE_Wallet(r) ==
    LET q == reqs[r]
    IN  /\ q.op = "w_purchase_electricity" /\ q.pc = "wallet"
        /\ UNCHANGED db
        /\ IF q.user \notin DOMAIN wallets
           THEN Respond(r, "rejected", "wallet_not_found", 0)
           ELSE IF wallets[q.user].balance < ELEC_PRICE
           THEN Respond(r, "rejected", "insufficient_balance", 0)
           ELSE reqs' = [reqs EXCEPT ![r].pc = "update", ![r].w = Snapshot(wallets[q.user])]

\* UPDATE wallets (lines 1000-1005).
WE_Update(r) ==
    LET q == reqs[r]
    IN  /\ q.op = "w_purchase_electricity" /\ q.pc = "update"
        /\ wallets' = [wallets EXCEPT ![q.user].balance = q.w.balance - ELEC_PRICE]
        /\ reqs' = [reqs EXCEPT ![r].pc = "credit", ![r].applied = TRUE]
        /\ UNCHANGED <<users, agent, transactions, vouchers, meters>>

\* UPDATE electricity_meters SET kwh_balance for a UNITS package, SET
\* unlimited_expires_at = utcnow() + validity_days otherwise (lines 1007-1019).
WE_Credit(r) ==
    LET q == reqs[r]
    IN  /\ q.op = "w_purchase_electricity" /\ q.pc = "credit"
        /\ IF q.arg = "UNLIMITED"
           THEN \E now \in LaterReadings :
                  /\ meters' = [meters EXCEPT
                        ![q.meter].unlimited_expires_at = now + 24 * q.days]
                  /\ reqs' = [reqs EXCEPT ![r].pc = "insert_txn", ![r].credited = TRUE,
                                          ![r].now = now]
           ELSE /\ meters' = [meters EXCEPT ![q.meter].kwh_balance = q.kwh + ELEC_KWH]
                /\ reqs' = [reqs EXCEPT ![r].pc = "insert_txn", ![r].credited = TRUE]
        /\ UNCHANGED <<users, wallets, agent, transactions, vouchers>>

\* INSERT INTO transactions (lines 1021-1038).
WE_Txn(r) ==
    LET q == reqs[r]
        tid == TxnId(r, 1)
    IN  /\ q.op = "w_purchase_electricity" /\ q.pc = "insert_txn"
        /\ transactions' = Append(transactions,
              NewTxn(tid, q.user, "PURCHASE", ELEC_PRICE, q.w.balance,
                     q.w.balance - ELEC_PRICE, "COMPLETED", "none", NoKey, FALSE,
                     "ELECTRICITY", q.meter))
        /\ reqs' = [reqs EXCEPT ![r].pc = "done",
                      ![r].resp = [status |-> "ok", detail |-> "", txn |-> tid]]
        /\ UNCHANGED <<users, wallets, agent, vouchers, meters>>

\* ------------------------------------------------- entry.py topup_float
\* SELECT the agent (lines 1104-1120); the amount is taken as sent.
WFl_Read(r) ==
    LET q == reqs[r]
    IN  /\ q.op = "w_topup_float" /\ q.pc = "start"
        /\ UNCHANGED db
        /\ IF q.user # AgentUser
           THEN Respond(r, "rejected", "not_an_agent", 0)
           ELSE reqs' = [reqs EXCEPT ![r].pc = "update", ![r].ag = AgentRow]

\* UPDATE agents SET float_balance (lines 1122-1129).
WFl_Update(r) ==
    LET q == reqs[r]
    IN  /\ q.op = "w_topup_float" /\ q.pc = "update"
        /\ agent' = [agent EXCEPT !.float_balance = q.ag.float_balance + q.amount]
        /\ reqs' = [reqs EXCEPT ![r].pc = "done", ![r].applied = TRUE,
                      ![r].resp = [status |-> "ok", detail |-> "", txn |-> 0]]
        /\ UNCHANGED <<users, wallets, transactions, vouchers, meters>>

\* ------------------------------------------------- entry.py process_sale
\* SELECT agent and package, compare float and price (lines 1131-1177).  The
\* body's cash_received is never read.
WS_Read(r) ==
    LET q == reqs[r]
        price == IF q.arg = "WIFI" THEN WIFI_PRICE ELSE ELEC_PRICE
    IN  /\ q.op = "w_process_sale" /\ q.pc = "start"
        /\ UNCHANGED db
        /\ IF q.user # AgentUser
           THEN Respond(r, "rejected", "not_an_agent", 0)
           ELSE IF agent.float_balance < price
           THEN Respond(r, "rejected", "insufficient_float", 0)
           ELSE reqs' = [reqs EXCEPT ![r].pc = "update", ![r].ag = AgentRow]

\* UPDATE agents SET float_balance, commission_balance, total_sales,
\* monthly_sales (lines 1179-1183).
WS_Update(r) ==
    LET q == reqs[r]
        price == IF q.arg = "WIFI" THEN WIFI_PRICE ELSE ELEC_PRICE
    IN  /\ q.op = "w_process_sale" /\ q.pc = "update"
        /\ agent' = [agent EXCEPT
              !.float_balance = q.ag.float_balance - price,
              !.commission_balance = q.ag.commission_balance + Commission(price, q.ag.tier),
              !.total_sales = q.ag.total_sales + price,
              !.monthly_sales = q.ag.monthly_sales + price]
        /\ reqs' = [reqs EXCEPT ![r].pc = "customer", ![r].applied = TRUE]
        /\ UNCHANGED <<users, wallets, transactions, vouchers, meters>>

\* SELECT the customer by phone (lines 1185-1190, 1202-1203).
WS_Customer(r) ==
    LET q == reqs[r]
    IN  /\ q.op = "w_process_sale" /\ q.pc = "customer"
        /\ UNCHANGED db
        /\ reqs' = [reqs EXCEPT ![r].isNew = q.to \notin DOMAIN users,
                      ![r].pc = IF q.to \in DOMAIN users THEN "product" ELSE "insert_user"]

\* INSERT INTO users (lines 1191-1196); phone_number is unique.
WS_InsertUser(r) ==
    LET q == reqs[r]
    IN  /\ q.op = "w_process_sale" /\ q.pc = "insert_user"
        /\ IF q.to \in DOMAIN users
           THEN /\ RespondIntegrityError(r)
                /\ UNCHANGED db
           ELSE /\ users' = users @@ (q.to :> [loyalty_points |-> 0])
                /\ reqs' = [reqs EXCEPT ![r].pc = "insert_wallet"]
                /\ UNCHANGED <<wallets, agent, transactions, vouchers, meters>>

\* INSERT INTO wallets (lines 1198-1201).
WS_InsertWallet(r) ==
    LET q == reqs[r]
    IN  /\ q.op = "w_process_sale" /\ q.pc = "insert_wallet"
        /\ wallets' = wallets @@ (q.to :> [balance |-> 0, status |-> "ACTIVE",
                                           daily_spent |-> 0, monthly_spent |-> 0])
        /\ reqs' = [reqs EXCEPT ![r].pc = "product"]
        /\ UNCHANGED <<users, agent, transactions, vouchers, meters>>

\* WIFI: INSERT INTO wifi_vouchers without transaction_id and respond
\* (lines 1207-1228).  Otherwise the meter number is checked and the meter
\* selected (lines 1229-1246).  No transactions row is written.
WS_Product(r) ==
    LET q == reqs[r]
    IN  /\ q.op = "w_process_sale" /\ q.pc = "product"
        /\ IF q.arg = "WIFI"
           THEN /\ vouchers' = Append(vouchers, NewVoucher(q.to, 0))
                /\ reqs' = [reqs EXCEPT ![r].pc = "done", ![r].credited = TRUE,
                              ![r].resp = [status |-> "ok", detail |-> "", txn |-> 0]]
                /\ UNCHANGED <<users, wallets, agent, transactions, meters>>
           ELSE /\ UNCHANGED db
                /\ IF q.meter = NoMeter
                   THEN Respond(r, "rejected", "meter_number_required", 0)
                   ELSE reqs' = [reqs EXCEPT
                          ![r].kwh = IF q.meter \in DOMAIN meters
                                     THEN meters[q.meter].kwh_balance ELSE 0,
                          ![r].pc = IF q.meter \in DOMAIN meters
                                    THEN "credit" ELSE "insert_meter"]

\* INSERT INTO electricity_meters for an unknown meter number (lines 1239-1243).
WS_InsertMeter(r) ==
    LET q == reqs[r]
    IN  /\ q.op = "w_process_sale" /\ q.pc = "insert_meter"
        /\ IF q.meter \in DOMAIN meters
           THEN /\ RespondIntegrityError(r)
                /\ UNCHANGED db
           ELSE /\ meters' = meters @@ (q.meter :> [user |-> q.to, kwh_balance |-> 0,
                                                    status |-> "ON",
                                  unlimited_expires_at |-> 0])
                /\ reqs' = [reqs EXCEPT ![r].pc = "credit"]
                /\ UNCHANGED <<users, wallets, agent, transactions, vouchers>>

\* UPDATE electricity_meters SET kwh_balance and respond (lines 1248-1268).
WS_Credit(r) ==
    LET q == reqs[r]
    IN  /\ q.op = "w_process_sale" /\ q.pc = "credit"
        /\ meters' = [meters EXCEPT ![q.meter].kwh_balance = q.kwh + ELEC_KWH]
        /\ reqs' = [reqs EXCEPT ![r].pc = "done", ![r].credited = TRUE,
                      ![r].resp = [status |-> "ok", detail |-> "", txn |-> 0]]
        /\ UNCHANGED <<users, wallets, agent, transactions, vouchers>>

\* ------------------------------------------------------- specifications
\* What clients send.
KeyArgs == Keys \cup {NoKey}
TransferAmounts == {2500}
TopupAmounts == {2500}
CashAmounts == {1000, 2500}
WithdrawAmounts == {175}
AdjustAmounts == {-2500, 2500}

ArrivePurchase(r) ==
    \E u \in RegisteredUsers, k \in KeyArgs :
        \/ Arrive(r, "purchase_wifi", u, k, 0, "none", NoMeter, "", 0)
        \/ \E m \in Meters : Arrive(r, "purchase_electricity", u, k, 0, "none", m, "", 0)

ArriveWallet(r) ==
    \/ \E u \in RegisteredUsers, k \in KeyArgs, a \in TransferAmounts, to \in Phones :
          Arrive(r, "transfer_funds", u, k, a, to, NoMeter, "", 0)
    \/ \E u \in RegisteredUsers, k \in KeyArgs, a \in TopupAmounts :
          Arrive(r, "initiate_topup", u, k, a, "none", NoMeter, "", 0)
    \/ \E t \in TxnSet, st \in {"SUCCESS", "FAILED"} :
          Arrive(r, "topup_callback", "none", NoKey, 0, "none", NoMeter, st, t.id)

ArriveAgent(r) ==
    \/ \E a \in TopupAmounts :
          Arrive(r, "topup_float", AgentUser, NoKey, a, "none", NoMeter, "", 0)
    \/ \E to \in Phones, k \in KeyArgs, c \in CashAmounts :
          \/ Arrive(r, "process_transaction", AgentUser, k, c, to, NoMeter, "WIFI", 0)
          \/ \E m \in Meters \cup {NoMeter} :
                Arrive(r, "process_transaction", AgentUser, k, c, to, m, "ELECTRICITY", 0)
    \/ \E a \in WithdrawAmounts, how \in {"WALLET", "BANK"} :
          Arrive(r, "withdraw_commission", AgentUser, NoKey, a, "none", NoMeter, how, 0)

ArriveAdmin(r) ==
    \/ \E to \in RegisteredUsers, a \in AdjustAmounts :
          Arrive(r, "adjust_wallet", "admin", NoKey, a, to, NoMeter, "", 0)
    \/ \E a \in AdjustAmounts :
          Arrive(r, "adjust_agent_float", "admin", NoKey, a, "none", NoMeter, "", 0)

StepPurchase(r) ==
    \/ PW_Load(r) \/ PW_Idem(r) \/ PW_Flush(r) \/ PW_Commit(r)
    \/ PE_Meter(r) \/ PE_Wallet(r) \/ PE_Idem(r) \/ PE_Commit(r)

StepWallet(r) ==
    \/ TF_Sender(r) \/ TF_Recipient(r) \/ TF_Idem(r) \/ TF_Commit(r)
    \/ IT_Wallet(r) \/ IT_Idem(r) \/ IT_Commit(r)
    \/ CB_Txn(r) \/ CB_Wallet(r) \/ CB_Commit(r)

StepAgent(r) ==
    \/ AF_Agent(r) \/ AF_Commit(r)
    \/ PT_Agent(r) \/ PT_Idem(r) \/ PT_Customer(r) \/ PT_Meter(r) \/ PT_Commit(r)
    \/ WC_Agent(r) \/ WC_Wallet(r) \/ WC_Commit(r)

StepAdmin(r) ==
    \/ AW_Wallet(r) \/ AW_Commit(r)
    \/ FA_Agent(r) \/ FA_Commit(r)

\* The FastAPI backend.
Next ==
    \E r \in ReqIds :
        \/ ArrivePurchase(r) \/ ArriveWallet(r) \/ ArriveAgent(r) \/ ArriveAdmin(r)
        \/ StepPurchase(r) \/ StepWallet(r) \/ StepAgent(r) \/ StepAdmin(r)
        \/ Fail(r)

Spec == Init /\ [][Next]_vars

\* The FastAPI purchase endpoints alone.
NextPurchase == \E r \in ReqIds : ArrivePurchase(r) \/ StepPurchase(r) \/ Fail(r)

SpecPurchase == Init /\ [][NextPurchase]_vars

\* What clients send to the worker: amounts are not validated there.
WorkerTopupAmounts == {-2500, 2500}
NewMeter == "m2"

ArriveWorker(r) ==
    \/ \E u \in RegisteredUsers, a \in WorkerTopupAmounts :
          Arrive(r, "w_topup_wallet", u, NoKey, a, "none", NoMeter, "", 0)
    \/ \E u \in RegisteredUsers :
          \/ Arrive(r, "w_purchase_wifi", u, NoKey, 0, "none", NoMeter, "", 0)
          \/ \E m \in Meters :
                Arrive(r, "w_purchase_electricity", u, NoKey, 0, "none", m, "", 0)
    \/ \E a \in WorkerTopupAmounts :
          Arrive(r, "w_topup_float", AgentUser, NoKey, a, "none", NoMeter, "", 0)
    \/ \E to \in Phones, c \in CashAmounts :
          \/ Arrive(r, "w_process_sale", AgentUser, NoKey, c, to, NoMeter, "WIFI", 0)
          \/ \E m \in Meters \cup {NewMeter, NoMeter} :
                Arrive(r, "w_process_sale", AgentUser, NoKey, c, to, m, "ELECTRICITY", 0)

StepWorker(r) ==
    \/ WT_Read(r) \/ WT_Update(r) \/ WT_Insert(r)
    \/ WW_Read(r) \/ WW_Update(r) \/ WW_Voucher(r) \/ WW_Txn(r)
    \/ WE_Meter(r) \/ WE_Wallet(r) \/ WE_Update(r) \/ WE_Credit(r) \/ WE_Txn(r)
    \/ WFl_Read(r) \/ WFl_Update(r)
    \/ WS_Read(r) \/ WS_Update(r) \/ WS_Customer(r) \/ WS_InsertUser(r)
    \/ WS_InsertWallet(r) \/ WS_Product(r) \/ WS_InsertMeter(r) \/ WS_Credit(r)

\* The Cloudflare worker.
NextWorker == \E r \in ReqIds : ArriveWorker(r) \/ StepWorker(r) \/ WorkerFail(r)

SpecWorker == Init /\ [][NextWorker]_vars

\* The purchase endpoints of both backends, without idempotency keys.
ArriveBuy(r) ==
    \E u \in RegisteredUsers :
        \/ Arrive(r, "purchase_wifi", u, NoKey, 0, "none", NoMeter, "", 0)
        \/ Arrive(r, "w_purchase_wifi", u, NoKey, 0, "none", NoMeter, "", 0)
        \/ \E m \in Meters :
              \/ Arrive(r, "purchase_electricity", u, NoKey, 0, "none", m, "", 0)
              \/ Arrive(r, "w_purchase_electricity", u, NoKey, 0, "none", m, "", 0)

StepWorkerBuy(r) ==
    \/ WW_Read(r) \/ WW_Update(r) \/ WW_Voucher(r) \/ WW_Txn(r)
    \/ WE_Meter(r) \/ WE_Wallet(r) \/ WE_Update(r) \/ WE_Credit(r) \/ WE_Txn(r)

NextBuy ==
    \E r \in ReqIds :
        ArriveBuy(r) \/ StepPurchase(r) \/ StepWorkerBuy(r) \/ Fail(r) \/ WorkerFail(r)

SpecBuy == Init /\ [][NextBuy]_vars

\* Transfers alone, late in a day and a month: u1 is one 25.00 transfer short
\* of the daily limit, u2 one 10.00 transfer short of the monthly limit.
LimitAmounts == {1000, 2500}
InitSpent ==
    [u \in RegisteredUsers |->
        IF u = "u1"
        THEN [daily |-> DAILY_LIMIT - 2500, monthly |-> DAILY_LIMIT - 2500]
        ELSE [daily |-> 0, monthly |-> MONTHLY_LIMIT - 1000]]

\* WalletStatus; no endpoint changes it, so a wallet that is not ACTIVE is one
\* the operators froze in the database.
WalletStatuses == {"ACTIVE", "FROZEN", "CLOSED"}

InitTransfer ==
    /\ users = [u \in RegisteredUsers |-> [loyalty_points |-> 0]]
    /\ \E st \in WalletStatuses :
        wallets = [u \in RegisteredUsers |->
                    [balance |-> InitBalance[u],
                     status |-> IF u = "u2" THEN st ELSE "ACTIVE",
                     daily_spent |-> InitSpent[u].daily,
                     monthly_spent |-> InitSpent[u].monthly]]
    /\ agent = [float_balance |-> InitFloat, commission_balance |-> 0,
                total_sales |-> 0, monthly_sales |-> 0, tier |-> "SILVER"]
    /\ transactions = <<SeedTopup(1, "u1", InitBalance["u1"]),
                         SeedTopup(2, "u2", InitBalance["u2"])>>
    /\ vouchers = <<>>
    /\ meters = [m \in Meters |-> [user |-> "u1", kwh_balance |-> 0, status |-> "ON",
                                  unlimited_expires_at |-> 0]]
    /\ reqs = [r \in ReqIds |-> IdleReq]

ArriveTransfer(r) ==
    \E u \in RegisteredUsers, a \in LimitAmounts, to \in Phones :
        Arrive(r, "transfer_funds", u, NoKey, a, to, NoMeter, "", 0)

NextTransfer ==
    \E r \in ReqIds :
        \/ ArriveTransfer(r)
        \/ TF_Sender(r) \/ TF_Recipient(r) \/ TF_Idem(r) \/ TF_Commit(r)
        \/ Fail(r)

SpecTransfer == InitTransfer /\ [][NextTransfer]_vars

\* The agent router's sales and commission withdrawals: commission is earned
\* by sales (cash in full, no idempotency key) and withdrawn either way.
ArriveCommission(r) ==
    \/ \E to \in Phones :
          \/ Arrive(r, "process_transaction", AgentUser, NoKey, WIFI_PRICE, to, NoMeter, "WIFI", 0)
          \/ \E m \in Meters :
                Arrive(r, "process_transaction", AgentUser, NoKey, ELEC_PRICE, to, m,
                       "ELECTRICITY", 0)
    \/ \E a \in WithdrawAmounts, how \in {"WALLET", "BANK"} :
          Arrive(r, "withdraw_commission", AgentUser, NoKey, a, "none", NoMeter, how, 0)

NextCommission ==
    \E r \in ReqIds :
        \/ ArriveCommission(r)
        \/ PT_Agent(r) \/ PT_Idem(r) \/ PT_Customer(r) \/ PT_Meter(r) \/ PT_Commit(r)
        \/ WC_Agent(r) \/ WC_Wallet(r) \/ WC_Commit(r)
        \/ Fail(r)

SpecCommission == Init /\ [][NextCommission]_vars

\* The purchase endpoints of both backends over wallets of every status.
InitStatus ==
    /\ users = [u \in RegisteredUsers |-> [loyalty_points |-> 0]]
    /\ \E st \in [RegisteredUsers -> WalletStatuses] :
        wallets = [u \in RegisteredUsers |->
                    [balance |-> InitBalance[u], status |-> st[u],
                     daily_spent |-> 0, monthly_spent |-> 0]]
    /\ agent = [float_balance |-> InitFloat, commission_balance |-> 0,
                total_sales |-> 0, monthly_sales |-> 0, tier |-> "SILVER"]
    /\ transactions = <<SeedTopup(1, "u1", InitBalance["u1"]),
                         SeedTopup(2, "u2", InitBalance["u2"])>>
    /\ vouchers = <<>>
    /\ meters = [m \in Meters |-> [user |-> "u1", kwh_balance |-> 0, status |-> "ON",
                                  unlimited_expires_at |-> 0]]
    /\ reqs = [r \in ReqIds |-> IdleReq]

SpecStatus == InitStatus /\ [][NextBuy]_vars

\* An agent who has already sold one WiFi package to u1 as a SILVER agent,
\* then further sales, tier changes by the admin and commission listings.
SeedSaleId == 4
SeedSale ==
    NewTxn(SeedSaleId, "u1", "PURCHASE", WIFI_PRICE, InitBalance["u1"], InitBalance["u1"],
           "COMPLETED", "AGENT", NoKey, TRUE, "WIFI", NoMeter)

InitSold ==
    /\ users = [u \in RegisteredUsers |-> [loyalty_points |-> 0]]
    /\ wallets = [u \in RegisteredUsers |->
                    [balance |-> InitBalance[u], status |-> "ACTIVE",
                     daily_spent |-> 0, monthly_spent |-> 0]]
    /\ agent = [float_balance |-> InitFloat,
                commission_balance |-> Commission(WIFI_PRICE, "SILVER"),
                total_sales |-> WIFI_PRICE, monthly_sales |-> WIFI_PRICE, tier |-> "SILVER"]
    /\ transactions = <<SeedTopup(1, "u1", InitBalance["u1"]),
                         SeedTopup(2, "u2", InitBalance["u2"]),
                         SeedSale>>
    /\ vouchers = <<NewVoucher("u1", 0)>>
    /\ meters = [m \in Meters |-> [user |-> "u1", kwh_balance |-> 0, status |-> "ON",
                                  unlimited_expires_at |-> 0]]
    /\ reqs = [r \in ReqIds |-> IdleReq]

ArriveTier(r) ==
    \/ \E to \in Phones :
          Arrive(r, "process_transaction", AgentUser, NoKey, WIFI_PRICE, to, NoMeter, "WIFI", 0)
    \/ \E tier \in AgentTiers :
          Arrive(r, "update_agent_tier", "admin", NoKey, 0, "none", NoMeter, tier, 0)
    \/ Arrive(r, "get_commissions", AgentUser, NoKey, 0, "none", NoMeter, "", 0)

NextTier ==
    \E r \in ReqIds :
        \/ ArriveTier(r)
        \/ PT_Agent(r) \/ PT_Idem(r) \/ PT_Customer(r) \/ PT_Commit(r)
        \/ UT_Agent(r) \/ UT_Commit(r)
        \/ GC_Agent(r) \/ GC_List(r)
        \/ Fail(r)

SpecTier == InitSold /\ [][NextTier]_vars

\* u1 has bought one WiFi voucher; vouchers are activated and usage is read.
SeedPurchaseId == 5
InitVoucher ==
    /\ users = [u \in RegisteredUsers |->
                  [loyalty_points |-> IF u = "u1" THEN LoyaltyPoints(WIFI_PRICE) ELSE 0]]
    /\ wallets = [u \in RegisteredUsers |->
                    [balance |-> InitBalance[u], status |-> "ACTIVE",
                     daily_spent |-> 0, monthly_spent |-> 0]]
    /\ agent = [float_balance |-> InitFloat, commission_balance |-> 0,
                total_sales |-> 0, monthly_sales |-> 0, tier |-> "SILVER"]
    /\ transactions = <<SeedTopup(1, "u1", InitBalance["u1"] + WIFI_PRICE),
                         SeedTopup(2, "u2", InitBalance["u2"]),
                         NewTxn(SeedPurchaseId, "u1", "PURCHASE", -WIFI_PRICE,
                                InitBalance["u1"] + WIFI_PRICE, InitBalance["u1"],
                                "COMPLETED", "WALLET", NoKey, FALSE, "WIFI", NoMeter)>>
    /\ vouchers = <<NewVoucher("u1", SeedPurchaseId)>>
    /\ meters = [m \in Meters |-> [user |-> "u1", kwh_balance |-> 0, status |-> "ON",
                                  unlimited_expires_at |-> 0]]
    /\ reqs = [r \in ReqIds |-> IdleReq]

VoucherIds == {1, 2}

ArriveVoucher(r) ==
    \E u \in RegisteredUsers :
        \/ Arrive(r, "purchase_wifi", u, NoKey, 0, "none", NoMeter, "", 0)
        \/ \E v \in VoucherIds :
              Arrive(r, "activate_voucher", u, NoKey, 0, "none", NoMeter, "", v)
        \/ Arrive(r, "get_usage", u, NoKey, 0, "none", NoMeter, "", 0)

NextVoucher ==
    \E r \in ReqIds :
        \/ ArriveVoucher(r)
        \/ PW_Load(r) \/ PW_Idem(r) \/ PW_Flush(r) \/ PW_Commit(r)
        \/ AV_Load(r) \/ AV_Commit(r)
        \/ GU_Load(r) \/ GU_Commit(r)
        \/ Fail(r)

SpecVoucher == InitVoucher /\ [][NextVoucher]_vars

\* Electricity purchases of UNLIMITED packages (package_type UNLIMITED,
\* kwh_amount NULL, priced like the UNITS package) of either validity, next
\* to purchases of the UNITS package, on both backends.
UnlimitedValidityDays == {7, 30}

ArriveUnlimited(r) ==
    \E u \in RegisteredUsers, m \in Meters :
        \/ Arrive(r, "purchase_electricity", u, NoKey, 0, "none", m, "", 0)
        \/ Arrive(r, "w_purchase_electricity", u, NoKey, 0, "none", m, "", 0)
        \/ \E op \in {"purchase_electricity", "w_purchase_electricity"},
                d \in UnlimitedValidityDays :
              /\ reqs[r].pc = "idle"
              /\ reqs' = [reqs EXCEPT ![r] =
                           [IdleReq EXCEPT !.op = op, !.pc = "start", !.user = u,
                                           !.meter = m, !.arg = "UNLIMITED", !.days = d]]
              /\ UNCHANGED db

NextUnlimited ==
    \E r \in ReqIds :
        \/ ArriveUnlimited(r)
        \/ PE_Meter(r) \/ PE_Wallet(r) \/ PE_Idem(r) \/ PE_Commit(r)
        \/ WE_Meter(r) \/ WE_Wallet(r) \/ WE_Update(r) \/ WE_Credit(r) \/ WE_Txn(r)
        \/ Fail(r) \/ WorkerFail(r)

SpecUnlimited == Init /\ [][NextUnlimited]_vars

\* Requests of every FastAPI operation that takes an idempotency key, all
\* sent with the same key: purchases (electricity for the caller's own
\* meter), transfers to the other user, top-ups, and agent sales to a
\* customer other than the agent.
ArriveKeyed(r) ==
    \E u \in RegisteredUsers, k \in Keys :
        \/ Arrive(r, "purchase_wifi", u, k, 0, "none", NoMeter, "", 0)
        \/ \E m \in Meters :
              /\ meters[m].user = u
              /\ Arrive(r, "purchase_electricity", u, k, 0, "none", m, "", 0)
        \/ \E a \in TransferAmounts, to \in RegisteredUsers \ {u} :
              Arrive(r, "transfer_funds", u, k, a, to, NoMeter, "", 0)
        \/ \E a \in TopupAmounts : Arrive(r, "initiate_topup", u, k, a, "none", NoMeter, "", 0)
        \/ /\ u # AgentUser
           /\ Arrive(r, "process_transaction", AgentUser, k, WIFI_PRICE, u, NoMeter, "WIFI", 0)

NextKeyed ==
    \E r \in ReqIds :
        \/ ArriveKeyed(r)
        \/ StepPurchase(r)
        \/ TF_Sender(r) \/ TF_Recipient(r) \/ TF_Idem(r) \/ TF_Commit(r)
        \/ IT_Wallet(r) \/ IT_Idem(r) \/ IT_Commit(r)
        \/ PT_Agent(r) \/ PT_Idem(r) \/ PT_Customer(r) \/ PT_Commit(r)
        \/ Fail(r)

SpecKeyed == Init /\ [][NextKeyed]_vars

\* Top-ups only: initiations and gateway callbacks for the stored transactions.
NextTopup ==
    \E r \in ReqIds :
        \/ \/ \E u \in RegisteredUsers, a \in TopupAmounts :
                 Arrive(r, "initiate_topup", u, NoKey, a, "none", NoMeter, "", 0)
           \/ \E t \in TxnSet, st \in {"SUCCESS", "FAILED"} :
                 Arrive(r, "topup_callback", "none", NoKey, 0, "none", NoMeter, st, t.id)
        \/ IT_Wallet(r) \/ IT_Idem(r) \/ IT_Commit(r)
        \/ CB_Txn(r) \/ CB_Wallet(r) \/ CB_Commit(r)
        \/ Fail(r)

SpecTopup == Init /\ [][NextTopup]_vars

\* Wallets of every status, a top-up of u2 still PENDING and the agent with
\* the commission of one earlier sale; then the FastAPI operations a user can
\* start on a wallet.
InitFrozen ==
    /\ users = [u \in RegisteredUsers |-> [loyalty_points |-> 0]]
    /\ \E st \in [RegisteredUsers -> WalletStatuses] :
        wallets = [u \in RegisteredUsers |->
                    [balance |-> InitBalance[u], status |-> st[u],
                     daily_spent |-> 0, monthly_spent |-> 0]]
    /\ agent = [float_balance |-> InitFloat,
                commission_balance |-> Commission(WIFI_PRICE, "SILVER"),
                total_sales |-> WIFI_PRICE, monthly_sales |-> WIFI_PRICE, tier |-> "SILVER"]
    /\ transactions = <<SeedTopup(1, "u1", InitBalance["u1"]),
                         SeedTopup(2, "u2", InitBalance["u2"]),
                         PendingTopup(3, "u2", WIFI_PRICE),
                         SeedSale>>
    /\ vouchers = <<NewVoucher("u1", 0)>>
    /\ meters = [m \in Meters |-> [user |-> "u1", kwh_balance |-> 0, status |-> "ON",
                                  unlimited_expires_at |-> 0]]
    /\ reqs = [r \in ReqIds |-> IdleReq]

NextFrozen ==
    \E r \in ReqIds :
        \/ \/ \E u \in RegisteredUsers :
                 \/ Arrive(r, "purchase_wifi", u, NoKey, 0, "none", NoMeter, "", 0)
                 \/ \E m \in Meters :
                       /\ meters[m].user = u
                       /\ Arrive(r, "purchase_electricity", u, NoKey, 0, "none", m, "", 0)
                 \/ \E a \in TransferAmounts, to \in RegisteredUsers \ {u} :
                       Arrive(r, "transfer_funds", u, NoKey, a, to, NoMeter, "", 0)
           \/ \E st \in {"SUCCESS", "FAILED"} :
                 Arrive(r, "topup_callback", "none", NoKey, 0, "none", NoMeter, st, 3)
           \/ \E a \in WithdrawAmounts :
                 Arrive(r, "withdraw_commission", AgentUser, NoKey, a, "none", NoMeter, "WALLET", 0)
        \/ StepPurchase(r)
        \/ TF_Sender(r) \/ TF_Recipient(r) \/ TF_Idem(r) \/ TF_Commit(r)
        \/ CB_Txn(r) \/ CB_Wallet(r) \/ CB_Commit(r)
        \/ WC_Agent(r) \/ WC_Wallet(r) \/ WC_Commit(r)
        \/ Fail(r)

SpecFrozen == InitFrozen /\ [][NextFrozen]_vars

\* Transfers and purchases late in a day and a month (InitTransfer).
NextSpend ==
    \E r \in ReqIds :
        \/ \E u \in RegisteredUsers :
               \/ Arrive(r, "purchase_wifi", u, NoKey, 0, "none", NoMeter, "", 0)
               \/ \E m \in Meters :
                     /\ meters[m].user = u
                     /\ Arrive(r, "purchase_electricity", u, NoKey, 0, "none", m, "", 0)
               \/ \E a \in LimitAmounts, to \in RegisteredUsers \ {u} :
                     Arrive(r, "transfer_funds", u, NoKey, a, to, NoMeter, "", 0)
        \/ StepPurchase(r)
        \/ TF_Sender(r) \/ TF_Recipient(r) \/ TF_Idem(r) \/ TF_Commit(r)
        \/ Fail(r)

SpecSpend == InitTransfer /\ [][NextSpend]_vars

\* ------------------------------------------------ wallet.py get_wallet
\* Calendar dates as yyyymmdd; last_daily_reset and last_monthly_reset are
\* kept to the date, the only part of them the code compares.  A reading of
\* the clock is never earlier than a date already read or stored.
LaterDates ==
    {d \in {20241230, 20241231, 20250101} :
        /\ d >= LastReading
        /\ \A u \in DOMAIN wallets : d >= wallets[u].last_daily_reset}

\* The wallets of InitTransfer, last reset on the first date.
InitReset ==
    /\ users = [u \in RegisteredUsers |-> [loyalty_points |-> 0]]
    /\ wallets = [u \in RegisteredUsers |->
                    [balance |-> InitBalance[u], status |-> "ACTIVE",
                     daily_spent |-> InitSpent[u].daily,
                     monthly_spent |-> InitSpent[u].monthly,
                     last_daily_reset |-> 20241230,
                     last_monthly_reset |-> 20241230]]
    /\ agent = [float_balance |-> InitFloat, commission_balance |-> 0,
                total_sales |-> 0, monthly_sales |-> 0, tier |-> "SILVER"]
    /\ transactions = <<SeedTopup(1, "u1", InitBalance["u1"]),
                         SeedTopup(2, "u2", InitBalance["u2"])>>
    /\ vouchers = <<>>
    /\ meters = [m \in Meters |-> [user |-> "u1", kwh_balance |-> 0, status |-> "ON",
                                  unlimited_expires_at |-> 0]]
    /\ reqs = [r \in ReqIds |-> IdleReq]

\* The caller's wallet, then now = datetime.utcnow() (lines 30-42).
GW_Load(r) ==
    LET q == reqs[r]
    IN  /\ q.op = "get_wallet" /\ q.pc = "start"
        /\ UNCHANGED db
        /\ IF q.user \notin DOMAIN wallets
           THEN Respond(r, "rejected", "wallet_not_found", 0)
           ELSE \E t \in LaterDates :
                  reqs' = [reqs EXCEPT ![r].pc = "commit", ![r].w = wallets[q.user],
                                       ![r].now = t]

\* Reset the counters of an earlier day or month and commit (lines 43-51).
GW_Commit(r) ==
    LET q == reqs[r]
        newDay == q.w.last_daily_reset < q.now
        last == q.w.last_monthly_reset
        newMonth == \/ (last \div 100) % 100 < (q.now \div 100) % 100
                    \/ last \div 10000 < q.now \div 10000
    IN  /\ q.op = "get_wallet" /\ q.pc = "commit"
        /\ wallets' = [wallets EXCEPT
              ![q.user].daily_spent = IF newDay THEN 0 ELSE @,
              ![q.user].last_daily_reset = IF newDay THEN q.now ELSE @,
              ![q.user].monthly_spent = IF newMonth THEN 0 ELSE @,
              ![q.user].last_monthly_reset = IF newMonth THEN q.now ELSE @]
        /\ reqs' = [reqs EXCEPT ![r].pc = "done",
                      ![r].resp = [status |-> "ok", detail |-> "", txn |-> 0]]
        /\ UNCHANGED <<users, agent, transactions, vouchers, meters>>

NextReset ==
    \E r \in ReqIds :
        \/ \E u \in RegisteredUsers, t \in LaterDates :
              /\ reqs[r].pc = "idle"
              /\ UNCHANGED db
              /\ \/ reqs' = [reqs EXCEPT ![r] =
                      [IdleReq EXCEPT !.op = "get_wallet", !.pc = "start", !.user = u,
                                      !.now = t]]
                 \/ \E a \in LimitAmounts, to \in RegisteredUsers \ {u} :
                       reqs' = [reqs EXCEPT ![r] =
                          [IdleReq EXCEPT !.op = "transfer_funds", !.pc = "start",
                                          !.user = u, !.amount = a, !.to = to, !.now = t]]
        \/ GW_Load(r) \/ GW_Commit(r)
        \/ TF_Sender(r) \/ TF_Recipient(r) \/ TF_Idem(r) \/ TF_Commit(r)
        \/ Fail(r)

SpecReset == InitReset /\ [][NextReset]_vars

\* Electricity for a meter of any status: bought by its owner through either
\* backend, or sold by the agent.
InitMeter ==
    /\ users = [u \in RegisteredUsers |-> [loyalty_points |-> 0]]
    /\ wallets = [u \in RegisteredUsers |->
                    [balance |-> InitBalance[u], status |-> "ACTIVE",
                     daily_spent |-> 0, monthly_spent |-> 0]]
    /\ agent = [float_balance |-> InitFloat, commission_balance |-> 0,
                total_sales |-> 0, monthly_sales |-> 0, tier |-> "SILVER"]
    /\ transactions = <<SeedTopup(1, "u1", InitBalance["u1"]),
                         SeedTopup(2, "u2", InitBalance["u2"])>>
    /\ vouchers = <<>>
    /\ \E st \in {"ON", "OFF", "TAMPERED", "OFFLINE"} :
          meters = [m \in Meters |-> [user |-> "u1", kwh_balance |-> 0, status |-> st,
                                      unlimited_expires_at |-> 0]]
    /\ reqs = [r \in ReqIds |-> IdleReq]

NextMeter ==
    \E r \in ReqIds :
        \/ \E m \in Meters :
               \/ \E u \in RegisteredUsers :
                     \/ Arrive(r, "purchase_electricity", u, NoKey, 0, "none", m, "", 0)
                     \/ Arrive(r, "w_purchase_electricity", u, NoKey, 0, "none", m, "", 0)
               \/ \E to \in RegisteredUsers, c \in CashAmounts :
                     Arrive(r, "process_transaction", AgentUser, NoKey, c, to, m, "ELECTRICITY", 0)
        \/ PE_Meter(r) \/ PE_Wallet(r) \/ PE_Idem(r) \/ PE_Commit(r)
        \/ WE_Meter(r) \/ WE_Wallet(r) \/ WE_Update(r) \/ WE_Credit(r) \/ WE_Txn(r)
        \/ PT_Agent(r) \/ PT_Idem(r) \/ PT_Customer(r) \/ PT_Meter(r) \/ PT_Commit(r)
        \/ Fail(r) \/ WorkerFail(r)

SpecMeter == InitMeter /\ [][NextMeter]_vars

\* ------------------------------------------- binary64 (Python float) values
\* The worker converts every amount with float(...) and binds the float to
\* a REAL column. A float is kept here as [m, e] with value m * 2^e, where
\* m is a natural number below 2^53 written in base LIMB (2^15), least
\* significant limb first, and odd unless the value is zero.
LIMB == 32768

RECURSIVE Trim(_)
Trim(a) ==
    IF a = <<>> THEN <<>>
    ELSE IF a[Len(a)] = 0 THEN Trim(SubSeq(a, 1, Len(a) - 1))
    ELSE a

RECURSIVE BigAddCarry(_, _, _)
BigAddCarry(a, b, c) ==
    IF a = <<>> /\ b = <<>> THEN (IF c = 0 THEN <<>> ELSE <<c>>)
    ELSE LET x == IF a = <<>> THEN 0 ELSE Head(a)
             y == IF b = <<>> THEN 0 ELSE Head(b)
             s == x + y + c
         IN  <<s % LIMB>> \o BigAddCarry(IF a = <<>> THEN <<>> ELSE Tail(a),
                                         IF b = <<>> THEN <<>> ELSE Tail(b),
                                         s \div LIMB)

\* a - b for a >= b.
RECURSIVE BigSubBorrow(_, _, _)
BigSubBorrow(a, b, c) ==
    IF a = <<>> THEN <<>>
    ELSE LET y == IF b = <<>> THEN 0 ELSE Head(b)
             s == Head(a) - y - c
         IN  <<s % LIMB>> \o BigSubBorrow(Tail(a), IF b = <<>> THEN <<>> ELSE Tail(b),
                                          IF s < 0 THEN 1 ELSE 0)

RECURSIVE BigLess(_, _)
BigLess(a, b) ==
    IF Len(a) # Len(b) THEN Len(a) < Len(b)
    ELSE IF a = <<>> THEN FALSE
    ELSE IF a[Len(a)] # b[Len(b)] THEN a[Len(a)] < b[Len(b)]
    ELSE BigLess(SubSeq(a, 1, Len(a) - 1), SubSeq(b, 1, Len(b) - 1))

RECURSIVE BigMulCarry(_, _, _)
BigMulCarry(a, k, c) ==
    IF a = <<>> THEN (IF c = 0 THEN <<>> ELSE <<c>>)
    ELSE LET s == Head(a) * k + c
         IN  <<s % LIMB>> \o BigMulCarry(Tail(a), k, s \div LIMB)

RECURSIVE BigMul(_, _)
BigMul(a, b) ==
    IF b = <<>> THEN <<>>
    ELSE Trim(BigAddCarry(BigMulCarry(a, Head(b), 0),
                          IF Tail(b) = <<>> THEN <<>> ELSE <<0>> \o BigMul(a, Tail(b)),
                          0))

\* Quotient and remainder of a by the small divisor d.
RECURSIVE BigDivRem(_, _)
BigDivRem(a, d) ==
    IF a = <<>> THEN [q |-> <<>>, r |-> 0]
    ELSE LET hi == BigDivRem(Tail(a), d)
             cur == hi.r * LIMB + Head(a)
         IN  [q |-> Trim(<<cur \div d>> \o hi.q), r |-> cur % d]

\* The number of bits of a (a has no leading zero limb).
BitLen(a) ==
    IF a = <<>> THEN 0
    ELSE 15 * (Len(a) - 1) + Cardinality({k \in 0..14 : 2 ^ k <= a[Len(a)]})

\* a * 2^n.
BigShiftLeft(a, n) ==
    IF a = <<>> THEN <<>>
    ELSE [i \in 1..(n \div 15) |-> 0] \o BigMulCarry(a, 2 ^ (n % 15), 0)

\* a \div 2^n, and whether a nonzero remainder was dropped.
BigShiftRight(a, n) ==
    LET limbs == n \div 15
        h == BigDivRem(SubSeq(a, limbs + 1, Len(a)), 2 ^ (n % 15))
    IN  [q |-> h.q,
         r |-> h.r # 0 \/ \E i \in 1..limbs : i <= Len(a) /\ a[i] # 0]

\* m * 2^e with the trailing zero bits of m moved into the exponent.
Canon(m, e) ==
    IF m = <<>> THEN [m |-> <<>>, e |-> 0]
    ELSE LET zeros == {n \in 0..BitLen(m) : ~BigShiftRight(m, n).r}
             tz == CHOOSE n \in zeros : \A k \in zeros : k <= n
         IN  [m |-> BigShiftRight(m, tz).q, e |-> e + tz]

\* Round n * 2^e (plus a nonzero fraction of 2^e below it when sticky) to
\* the nearest float of 53 mantissa bits, ties to even.
RoundDouble(n, sticky, e) ==
    IF BitLen(n) <= 53 THEN Canon(n, e)
    ELSE LET s == BitLen(n) - 54
             g == BigShiftRight(n, s)
             h == BigDivRem(g.q, 2)
             up == h.r = 1 /\ (sticky \/ g.r \/ Head(h.q) % 2 = 1)
         IN  Canon(IF up THEN Trim(BigAddCarry(h.q, <<1>>, 0)) ELSE h.q, e + s + 1)

\* float(n / d) for a decimal n / d that is zero or at least 2^-6: the
\* literal 0.07 is ToDouble(7, 100), float(Decimal("25.00")) is
\* ToDouble(2500, 100).  The quotient is taken of n * 2^60.
ToDouble(n, d) ==
    LET big == Trim(<<n % LIMB, (n \div LIMB) % LIMB, n \div (LIMB * LIMB)>>)
        h == BigDivRem(<<0, 0, 0, 0>> \o big, d)
    IN  RoundDouble(h.q, h.r # 0, -60)

DoubleMul(a, b) == RoundDouble(BigMul(a.m, b.m), FALSE, a.e + b.e)

\* a's and b's mantissas at their common exponent.
Aligned(a, b) ==
    LET e == IF a.e < b.e THEN a.e ELSE b.e
    IN  [a |-> Trim(BigShiftLeft(a.m, a.e - e)), b |-> Trim(BigShiftLeft(b.m, b.e - e)),
         e |-> e]

\* a - b for a >= b.
DoubleSub(a, b) ==
    LET al == Aligned(a, b) IN RoundDouble(Trim(BigSubBorrow(al.a, al.b, 0)), FALSE, al.e)

DoubleAdd(a, b) ==
    LET al == Aligned(a, b) IN RoundDouble(Trim(BigAddCarry(al.a, al.b, 0)), FALSE, al.e)

\* ------------------------------------- entry.py process_sale, as floats
\* The agents row as D1 holds it: float_balance, commission_balance and the
\* sales totals are REAL columns holding the floats the worker binds.
InitReal ==
    /\ users = [u \in RegisteredUsers |-> [loyalty_points |-> 0]]
    /\ wallets = [u \in RegisteredUsers |->
                    [balance |-> InitBalance[u], status |-> "ACTIVE",
                     daily_spent |-> 0, monthly_spent |-> 0]]
    /\ \E t \in AgentTiers :
          agent = [float_balance |-> ToDouble(InitFloat, 100),
                   commission_balance |-> [m |-> <<>>, e |-> 0],
                   total_sales |-> [m |-> <<>>, e |-> 0],
                   monthly_sales |-> [m |-> <<>>, e |-> 0], tier |-> t]
    /\ transactions = <<>>
    /\ vouchers = <<>>
    /\ meters = [m \in Meters |-> [user |-> "u1", kwh_balance |-> 0, status |-> "ON",
                                  unlimited_expires_at |-> 0]]
    /\ reqs = [r \in ReqIds |-> IdleReq]

\* SELECT agent and package; price = float(package.price); compare the
\* float balance with the price (lines 1142-1166).
WR_Read(r) ==
    LET q == reqs[r]
        price == ToDouble(q.amount, 100)
    IN  /\ q.op = "w_process_sale" /\ q.pc = "start"
        /\ UNCHANGED db
        /\ IF BigLess(Aligned(agent.float_balance, price).a,
                      Aligned(agent.float_balance, price).b)
           THEN Respond(r, "rejected", "insufficient_float", 0)
           ELSE reqs' = [reqs EXCEPT ![r].pc = "update", ![r].ag = agent]

\* commission = price * commission_rate with the rate a float literal;
\* new_float, new_commission and the totals are computed from the row read
\* above and bound to the UPDATE (lines 1168-1183).
WR_Update(r) ==
    LET q == reqs[r]
        price == ToDouble(q.amount, 100)
        commission == DoubleMul(price, ToDouble(COMMISSION_RATES[q.ag.tier], 100))
    IN  /\ q.op = "w_process_sale" /\ q.pc = "update"
        /\ agent' = [agent EXCEPT
              !.float_balance = DoubleSub(q.ag.float_balance, price),
              !.commission_balance = DoubleAdd(q.ag.commission_balance, commission),
              !.total_sales = DoubleAdd(q.ag.total_sales, price),
              !.monthly_sales = DoubleAdd(q.ag.monthly_sales, price)]
        /\ reqs' = [reqs EXCEPT ![r].pc = "done", ![r].applied = TRUE,
                      ![r].resp = [status |-> "ok", detail |-> "", txn |-> 0]]
        /\ UNCHANGED <<users, wallets, transactions, vouchers, meters>>

\* The agent sells a package of one of the seeded prices (q.amount).
NextReal ==
    \E r \in ReqIds :
        \/ \E p \in {500, 1000, 2500, 4800, 5000, 9900}, arg \in {"WIFI", "ELECTRICITY"} :
              Arrive(r, "w_process_sale", AgentUser, NoKey, p, "u2", NoMeter, arg, 0)
        \/ WR_Read(r)
        \/ WR_Update(r)

SpecReal == InitReal /\ [][NextReal]_vars

\* ================================================================ claims
Quiescent == \A r \in ReqIds : ~InFlight(r)
Succeeded(r) == reqs[r].pc = "done" /\ reqs[r].resp.status = "ok"

\* The signed amount request r reported as applied to the wallet of u.
WalletDelta(r, u) ==
    LET q == reqs[r]
    IN  IF ~Succeeded(r) THEN 0
        ELSE IF q.op \in {"purchase_wifi", "w_purchase_wifi"} /\ q.user = u THEN -WIFI_PRICE
        ELSE IF q.op \in {"purchase_electricity", "w_purchase_electricity"} /\ q.user = u
        THEN -ELEC_PRICE
        ELSE IF q.op = "transfer_funds" /\ q.user = u THEN -q.amount
        ELSE IF q.op = "transfer_funds" /\ q.to = u THEN q.amount
        ELSE IF q.op = "topup_callback" /\ q.resp.detail = "COMPLETED" /\ q.user = u
        THEN q.amount
        ELSE IF q.op = "withdraw_commission" /\ q.arg = "WALLET" /\ q.user = u THEN q.amount
        ELSE IF q.op = "w_topup_wallet" /\ q.user = u THEN q.amount
        ELSE 0

\* The signed amount request r reported as applied to the agent's float.
FloatDelta(r) ==
    LET q == reqs[r]
    IN  IF ~Succeeded(r) THEN 0
        ELSE IF q.op \in {"topup_float", "w_topup_float"} THEN q.amount
        ELSE IF q.op \in {"process_transaction", "w_process_sale"}
        THEN -(IF q.arg = "WIFI" THEN WIFI_PRICE ELSE ELEC_PRICE)
        ELSE 0

BalanceChangingOps ==
    {"none", "purchase_wifi", "purchase_electricity", "transfer_funds", "topup_callback",
     "withdraw_commission", "topup_float", "process_transaction"}

\* C1: once every request has ended, each wallet balance is its initial
\* balance plus the signed amounts of the requests that reported success,
\* and likewise the agent's float (no lost update), whatever the interleaving
\* of purchases, transfers, top-up callbacks, withdrawals to wallet, agent
\* sales and float top-ups.
C1_NoLostUpdate ==
    (Quiescent /\ \A r \in ReqIds : reqs[r].op \in BalanceChangingOps) =>
        /\ \A u \in RegisteredUsers :
              wallets[u].balance =
                  InitBalance[u] + SumSeq([r \in ReqIds |-> WalletDelta(r, u)], MaxRequests)
        /\ agent.float_balance =
              InitFloat + SumSeq([r \in ReqIds |-> FloatDelta(r)], MaxRequests)

\* C2: every wallet balance, the agent float and the commission balance are
\* never negative in a committed state.
C2_NonNegativeBalances ==
    /\ \A u \in DOMAIN wallets : wallets[u].balance >= 0
    /\ agent.float_balance >= 0
    /\ agent.commission_balance >= 0

\* C3: every COMPLETED transaction row has
\* balance_after - balance_before = amount (amount signed).
C3_TransactionBalanced ==
    \A t \in TxnSet :
        t.status = "COMPLETED" => t.balance_after - t.balance_before = t.amount

KeyedOps ==
    {"purchase_wifi", "purchase_electricity", "transfer_funds", "initiate_topup",
     "process_transaction"}
PurchaseOrTransfer == {"purchase_wifi", "purchase_electricity", "transfer_funds"}

\* The ids of the committed transactions that carry request r's key.
OriginalTxnIds(r) == {t.id : t \in TxnsWithKey(reqs[r].key)}

\* C4: a request whose idempotency key already belonged to a committed
\* transaction when it arrived changes nothing and answers with the id of
\* that original transaction.
C4_ReplayReturnsOriginal ==
    \A r \in ReqIds :
        (reqs[r].replay /\ reqs[r].pc = "done") =>
            /\ ~reqs[r].applied
            /\ reqs[r].resp.status = "already_processed"
            /\ reqs[r].resp.txn \in OriginalTxnIds(r)

\* Two purchase_wifi requests of one user with the same key, neither of them
\* a replay of an earlier committed request, have both ended and nothing else ran.
SameKeyWifiPair(r1, r2) ==
    /\ r1 # r2
    /\ reqs[r1].op = "purchase_wifi" /\ reqs[r2].op = "purchase_wifi"
    /\ reqs[r1].user = reqs[r2].user
    /\ InitBalance[reqs[r1].user] >= 2 * WIFI_PRICE
    /\ reqs[r1].key # NoKey /\ reqs[r1].key = reqs[r2].key
    /\ ~reqs[r1].replay /\ ~reqs[r2].replay
    /\ reqs[r1].pc = "done" /\ reqs[r2].pc = "done"
    /\ \A r \in ReqIds \ {r1, r2} : reqs[r].pc = "idle"

VouchersOf(tid) == {i \in 1..Len(vouchers) : vouchers[i].transaction_id = tid}
TxnIndexesWithKey(k) == {i \in 1..Len(transactions) : transactions[i].idempotency_key = k}

\* C5: two concurrent purchase_wifi requests with the same unused key on a
\* wallet that covers both commit exactly one transaction and exactly one
\* voucher and debit the price once.
C5_SameKeyRaceOnce ==
    \A r1, r2 \in ReqIds :
        SameKeyWifiPair(r1, r2) =>
            /\ Cardinality(TxnIndexesWithKey(reqs[r1].key)) = 1
            /\ Len(vouchers) = 1
            /\ \A t \in TxnsWithKey(reqs[r1].key) : Cardinality(VouchersOf(t.id)) = 1
            /\ reqs[r1].applied # reqs[r2].applied
            /\ wallets[reqs[r1].user].balance = InitBalance[reqs[r1].user] - WIFI_PRICE

\* The race happened: both requests passed the idempotency lookup and one of
\* them hit the unique constraint.
C5_Witness ==
    \E r1, r2 \in ReqIds :
        /\ SameKeyWifiPair(r1, r2)
        /\ reqs[r1].applied /\ reqs[r2].lost
        /\ wallets[reqs[r1].user].balance = InitBalance[reqs[r1].user] - WIFI_PRICE

\* C6: the request that loses the uniqueness conflict answers with the
\* winner's transaction id, not with an error.
C6_LoserGetsWinnersResult ==
    \A r \in ReqIds :
        reqs[r].lost =>
            /\ reqs[r].resp.status = "already_processed"
            /\ reqs[r].resp.txn \in OriginalTxnIds(r)

\* What the balance, wallet-status and spend-limit checks answer.
ReplayTimeChecks ==
    {"insufficient_balance", "wallet_unavailable", "daily_limit_exceeded",
     "monthly_limit_exceeded"}

\* C7: a purchase or transfer whose key already belongs to a transaction is
\* never turned away by the balance, wallet, limit or package checks.
C7_IdempotencyFirst ==
    \A r \in ReqIds :
        (reqs[r].op \in PurchaseOrTransfer /\ reqs[r].replay /\ reqs[r].pc = "done") =>
            ~(reqs[r].resp.status = "rejected" /\ reqs[r].resp.detail \in ReplayTimeChecks)

CompletedPurchases == {t \in TxnSet : t.type = "PURCHASE" /\ t.status = "COMPLETED"}

\* C8: every COMPLETED PURCHASE transaction has exactly one credit (one
\* voucher naming it, or the meter it credited), and every voucher names
\* exactly one COMPLETED PURCHASE transaction.
C8_PurchaseHasOneCredit ==
    /\ \A t \in CompletedPurchases :
          \/ t.product = "WIFI" /\ Cardinality(VouchersOf(t.id)) = 1
          \/ t.product = "ELECTRICITY" /\ t.meter \in DOMAIN meters
                /\ VouchersOf(t.id) = {}
    /\ \A i \in 1..Len(vouchers) :
          Cardinality({t \in CompletedPurchases : t.id = vouchers[i].transaction_id}) = 1

NewTxns == {transactions'[i] : i \in (Len(transactions) + 1)..Len(transactions')}
NewVouchers == {vouchers'[i] : i \in (Len(vouchers) + 1)..Len(vouchers')}

\* One step of the purchase endpoints commits the debit, the transaction row
\* and the credit together.
PurchaseStepAtomic ==
    /\ wallets' # wallets => NewTxns # {}
    /\ meters' # meters => \E t \in NewTxns : t.product = "ELECTRICITY"
    /\ \A v \in NewVouchers : \E t \in NewTxns : t.id = v.transaction_id
    /\ \A t \in NewTxns :
          /\ wallets'[t.wallet].balance = t.balance_after
          /\ t.amount < 0 /\ t.balance_after = t.balance_before + t.amount
          /\ t.product = "WIFI" =>
                Cardinality({i \in (Len(vouchers) + 1)..Len(vouchers') :
                                vouchers'[i].transaction_id = t.id}) = 1
          /\ t.product = "ELECTRICITY" =>
                meters'[t.meter].kwh_balance = reqs[t.id \div 10].kwh + ELEC_KWH
          /\ t.product \in {"WIFI", "ELECTRICITY"}

\* C9: in the FastAPI purchase_wifi and purchase_electricity the wallet
\* debit, the transaction row and the voucher or meter credit are committed
\* in one step or not at all, wherever the request fails in between.
C9_PurchaseAtomic == [][PurchaseStepAtomic]_vars

\* A purchase_wifi died between its flush and its commit and left nothing.
C9_Witness ==
    \E r \in ReqIds :
        /\ reqs[r].op = "purchase_wifi" /\ reqs[r].pc = "failed" /\ reqs[r].at = "commit"
        /\ TxnsWithId(TxnId(r, 1)) = {}
        /\ \A r2 \in ReqIds \ {r} : reqs[r2].pc = "idle"
        /\ wallets[reqs[r].user].balance = InitBalance[reqs[r].user]
        /\ vouchers = <<>>

WorkerDebitOps == {"w_purchase_wifi", "w_purchase_electricity", "w_process_sale"}

\* C10: a worker purchase or sale that fails after its balance UPDATE leaves
\* no debit without its credit and (for purchases) its transaction row.
C10_WorkerNoPartialDebit ==
    \A r \in ReqIds :
        (reqs[r].op \in WorkerDebitOps /\ reqs[r].pc = "failed" /\ reqs[r].applied) =>
            /\ reqs[r].credited
            /\ reqs[r].op # "w_process_sale" => TxnsWithId(TxnId(r, 1)) # {}

WifiPurchaseOps == {"purchase_wifi", "w_purchase_wifi"}

\* Request r answers success in this step.
Succeeds(r) == reqs[r].pc # "done" /\ reqs'[r].pc = "done" /\ reqs'[r].resp.status = "ok"

\* What a successful purchase_wifi that read balance b has committed when it
\* answers: balance b - p, one COMPLETED PURCHASE row (-p, b, b - p), and one
\* UNUSED voucher naming that row.
WifiPurchaseEffect(r) ==
    LET q == reqs[r]
        b == q.w.balance
        mine == {i \in 1..Len(transactions') : transactions'[i].id = reqs'[r].resp.txn}
        linked == {i \in 1..Len(vouchers') : vouchers'[i].transaction_id = reqs'[r].resp.txn}
    IN  /\ b >= WIFI_PRICE
        /\ wallets'[q.user].balance = b - WIFI_PRICE
        /\ Cardinality(mine) = 1
        /\ \A i \in mine :
              /\ transactions'[i].type = "PURCHASE" /\ transactions'[i].status = "COMPLETED"
              /\ transactions'[i].wallet = q.user
              /\ transactions'[i].amount = -WIFI_PRICE
              /\ transactions'[i].balance_before = b
              /\ transactions'[i].balance_after = b - WIFI_PRICE
        /\ Cardinality(linked) = 1
        /\ \A i \in linked : vouchers'[i].status = "UNUSED" /\ vouchers'[i].user = q.user

\* C11: a successful purchase_wifi on a wallet holding b >= p leaves b - p,
\* one COMPLETED PURCHASE transaction with amount -p, balance_before b and
\* balance_after b - p, and one UNUSED voucher linked to that transaction.
C11_WifiPurchaseEffect ==
    [][\A r \in ReqIds :
          (reqs[r].op \in WifiPurchaseOps /\ Succeeds(r)) => WifiPurchaseEffect(r)]_vars

BuyOps == {"purchase_wifi", "purchase_electricity", "w_purchase_wifi", "w_purchase_electricity"}
PriceOf(r) == IF reqs[r].op \in WifiPurchaseOps THEN WIFI_PRICE ELSE ELEC_PRICE

\* Request r is at the await where its handler reads the wallet and compares
\* balance and price.
AtBalanceCheck(r) ==
    reqs[r].pc = (IF reqs[r].op \in WifiPurchaseOps THEN "start" ELSE "wallet")

\* The handler of r runs on from there (it is not cancelled).
RunsOn(r) == reqs'[r] # reqs[r] /\ reqs'[r].pc # "failed"

\* C12: a WiFi or electricity purchase that finds the wallet balance below
\* the package price answers insufficient funds and changes nothing: no
\* balance, counter, loyalty point or meter changes, no transaction, no voucher.
C12_InsufficientFunds ==
    [][\A r \in ReqIds :
          (/\ reqs[r].op \in BuyOps /\ AtBalanceCheck(r) /\ RunsOn(r)
           /\ wallets[reqs[r].user].balance < PriceOf(r)) =>
              /\ reqs'[r].pc = "done"
              /\ reqs'[r].resp = [status |-> "rejected", detail |-> "insufficient_balance",
                                  txn |-> 0]
              /\ ~reqs'[r].applied /\ ~reqs'[r].credited
              /\ UNCHANGED db]_vars

\* A purchase emptied the wallet and the next one, sent to the other
\* backend, was turned away and left everything as it was.
C12_Witness ==
    \E r1, r2 \in ReqIds :
        /\ reqs[r1].op = "purchase_wifi" /\ reqs[r1].pc = "done" /\ reqs[r1].resp.status = "ok"
        /\ reqs[r2].op = "w_purchase_wifi" /\ reqs[r2].user = reqs[r1].user
        /\ reqs[r2].pc = "done" /\ reqs[r2].resp.detail = "insufficient_balance"
        /\ wallets[reqs[r1].user].balance = 0
        /\ TxnsWithId(TxnId(r2, 1)) = {}
        /\ VouchersOf(TxnId(r2, 1)) = {}

SaleOps == {"process_transaction", "w_process_sale"}
SalePrice(r) == IF reqs[r].arg = "WIFI" THEN WIFI_PRICE ELSE ELEC_PRICE
OnlyRequest(r) == \A r2 \in ReqIds \ {r} : reqs[r2].pc = "idle"

\* C13: a successful agent sale of a package priced p by an agent of tier t
\* takes exactly p from float_balance and adds exactly p * rate(t) to
\* commission_balance, whether or not the customer phone was known before.
C13_SaleFloatAndCommission ==
    [][\A r \in ReqIds :
          (reqs[r].op = "process_transaction" /\ Succeeds(r) /\ OnlyRequest(r)) =>
              /\ agent'.float_balance = agent.float_balance - SalePrice(r)
              /\ agent'.commission_balance =
                    agent.commission_balance + Commission(SalePrice(r), agent.tier)]_vars

\* The rows appended by this step, in order.
AppendedTxns == SubSeq(transactions', Len(transactions) + 1, Len(transactions'))

\* The wallets are still as the handler of r read them.
ViewCurrent(r) ==
    /\ reqs[r].w = Snapshot(wallets[reqs[r].user])
    /\ reqs[r].w2 = Snapshot(wallets[reqs[r].to])

TransferEffect(r) ==
    LET q == reqs[r]
        A == q.user
        B == q.to
        a == q.amount
    IN  /\ wallets'[A].balance = wallets[A].balance - a
        /\ wallets'[B].balance = wallets[B].balance + a
        /\ Len(AppendedTxns) = 2
        /\ \A i \in DOMAIN AppendedTxns :
              AppendedTxns[i].type = "TRANSFER" /\ AppendedTxns[i].status = "COMPLETED"
        /\ AppendedTxns[1].wallet = A /\ AppendedTxns[1].amount = -a
        /\ AppendedTxns[1].balance_before = wallets[A].balance
        /\ AppendedTxns[1].balance_after = wallets'[A].balance
        /\ AppendedTxns[Len(AppendedTxns)].wallet = B
        /\ AppendedTxns[Len(AppendedTxns)].amount = a
        /\ AppendedTxns[Len(AppendedTxns)].balance_before = wallets[B].balance
        /\ AppendedTxns[Len(AppendedTxns)].balance_after = wallets'[B].balance
        /\ AppendedTxns[Len(AppendedTxns)].reference = AppendedTxns[1].reference \o <<"-R">>
        /\ reqs'[r].resp.txn = AppendedTxns[1].id

RecipientRejections == {"recipient_not_found", "self_transfer", "recipient_unavailable"}

BadRecipient(r) ==
    LET to == reqs[r].to
    IN  \/ to \notin DOMAIN users
        \/ to = reqs[r].user
        \/ to \notin DOMAIN wallets
        \/ wallets[to].status # "ACTIVE"

\* C15: a transfer whose recipient phone is unknown, is the sender's own, or
\* has a missing or non-ACTIVE wallet is rejected and changes no balance, no
\* spend counter and no transaction.
C15_BadRecipientRejected ==
    [][\A r \in ReqIds :
          (/\ reqs[r].op = "transfer_funds" /\ reqs[r].pc = "recipient" /\ RunsOn(r)
           /\ BadRecipient(r)) =>
              /\ reqs'[r].pc = "done"
              /\ reqs'[r].resp.status = "rejected"
              /\ reqs'[r].resp.detail \in RecipientRejections
              /\ ~reqs'[r].applied
              /\ UNCHANGED db]_vars

\* A transfer to the FROZEN wallet of u2 was turned away.
C15_Witness ==
    \E r \in ReqIds :
        /\ reqs[r].op = "transfer_funds" /\ reqs[r].pc = "done"
        /\ reqs[r].resp.detail = "recipient_unavailable"
        /\ wallets[reqs[r].to].status = "FROZEN"
        /\ OnlyRequest(r)
        /\ \A u \in RegisteredUsers : wallets[u].balance = InitBalance[u]
        /\ TxnsWithId(TxnId(r, 1)) = {}

OverLimit(r) ==
    LET w == wallets[reqs[r].user]
    IN  \/ w.daily_spent + reqs[r].amount > DAILY_LIMIT
        \/ w.monthly_spent + reqs[r].amount > MONTHLY_LIMIT

WithdrawViewCurrent(r) ==
    /\ reqs[r].ag.commission_balance = agent.commission_balance
    /\ (reqs[r].arg = "WALLET" => reqs[r].w = Snapshot(wallets[reqs[r].user]))

WalletWithdrawEffect(r) ==
    LET q == reqs[r]
        a == q.amount
        b == wallets[q.user].balance
    IN  /\ a <= agent.commission_balance
        /\ agent' = [agent EXCEPT !.commission_balance = @ - a]
        /\ wallets' = [wallets EXCEPT ![q.user].balance = b + a]
        /\ Len(AppendedTxns) = 1
        /\ LET t == AppendedTxns[1]
           IN  /\ t.id = reqs'[r].resp.txn /\ t.wallet = q.user
               /\ t.type = "COMMISSION" /\ t.status = "COMPLETED"
               /\ t.amount = a
               /\ t.balance_before = b
               /\ t.balance_after = wallets'[q.user].balance
        /\ UNCHANGED <<users, vouchers, meters>>

C18_BankWithdrawal ==
    [][\A r \in ReqIds :
          (reqs[r].op = "withdraw_commission" /\ reqs[r].arg = "BANK"
             /\ Succeeds(r) /\ WithdrawViewCurrent(r)) =>
              /\ agent' = [agent EXCEPT !.commission_balance = @ - reqs[r].amount]
              /\ UNCHANGED wallets
              /\ Len(AppendedTxns) = 1]_vars

\* The step at which a sale compares the agent's float with the price, and
\* the float it compares.
AtFloatCheck(r) ==
    \/ reqs[r].op = "w_process_sale" /\ reqs[r].pc = "start"
    \/ reqs[r].op = "process_transaction" /\ reqs[r].arg = "WIFI" /\ reqs[r].pc = "customer"
    \/ reqs[r].op = "process_transaction" /\ reqs[r].arg = "ELECTRICITY" /\ reqs[r].pc = "meter"
FloatSeen(r) ==
    IF reqs[r].op = "w_process_sale" THEN agent.float_balance ELSE reqs[r].ag.float_balance

\* The request's idempotency key already belongs to a stored transaction: the
\* handler answers with that transaction instead of processing a sale.
KeyStored(r) == reqs[r].key # NoKey /\ TxnsWithKey(reqs[r].key) # {}

\* C19: an agent sale whose float is below the price is rejected at the float
\* check with no table changed, and a sale whose cash received is below the
\* price changes no table at any step and ends rejected.
C19_SaleRejectedUnchanged ==
    [][\A r \in ReqIds :
          (reqs[r].op \in SaleOps /\ RunsOn(r)) =>
              /\ (AtFloatCheck(r) /\ FloatSeen(r) < SalePrice(r))
                     => /\ reqs'[r].pc = "done" /\ reqs'[r].resp.status = "rejected"
                        /\ UNCHANGED db
              /\ (reqs[r].amount < SalePrice(r) /\ ~KeyStored(r))
                     => /\ UNCHANGED db
                        /\ reqs'[r].pc = "done" => reqs'[r].resp.status = "rejected"]_vars

\* C20: an agent sale that ended in a rejection debited no float and earned
\* no commission or bonus, credited no voucher or meter, and, when it was the
\* only request issued, left no new user, wallet or meter behind: the tables
\* are as they were before it.
C20_RejectedSaleNoEffects ==
    \A r \in ReqIds :
        (reqs[r].op \in SaleOps /\ reqs[r].pc = "done" /\ reqs[r].resp.status = "rejected") =>
            /\ ~reqs[r].applied /\ ~reqs[r].credited
            /\ OnlyRequest(r) =>
                  /\ DOMAIN users = RegisteredUsers /\ DOMAIN wallets = RegisteredUsers
                  /\ agent.float_balance = InitFloat /\ agent.commission_balance = 0
                  /\ vouchers = <<>>
                  /\ DOMAIN meters = Meters
                  /\ \A m \in Meters : meters[m].kwh_balance = 0

\* C21: a purchase by a user whose wallet is FROZEN or CLOSED changes no
\* table at any step and, when the handler returns, returns a rejection; at
\* the step that loads the wallet the rejection is "wallet not available".
C21_FrozenWalletRejected ==
    [][\A r \in ReqIds :
          (reqs[r].op \in BuyOps /\ RunsOn(r)
             /\ wallets[reqs[r].user].status \in {"FROZEN", "CLOSED"}) =>
              /\ UNCHANGED db
              /\ reqs'[r].pc = "done" => reqs'[r].resp.status = "rejected"
              /\ AtBalanceCheck(r) =>
                    /\ reqs'[r].pc = "done"
                    /\ reqs'[r].resp.detail = "wallet_unavailable"]_vars

\* C22: a transaction's status changes only from PENDING to COMPLETED or
\* FAILED and only in a step of topup_callback; a COMPLETED or FAILED
\* transaction keeps its status, amount, balance_before and balance_after in
\* every step; and a callback whose status is not SUCCESS changes no wallet.
C22_TransactionStatusMoves ==
    [][/\ \A i \in 1..Len(transactions) :
            LET t == transactions[i]
                u == transactions'[i]
            IN  /\ Len(transactions') >= i
                /\ t.status # u.status =>
                      /\ t.status = "PENDING" /\ u.status \in {"COMPLETED", "FAILED"}
                      /\ \E r \in ReqIds : reqs[r].op = "topup_callback" /\ RunsOn(r)
                /\ t.status \in {"COMPLETED", "FAILED"} =>
                      /\ u.status = t.status /\ u.amount = t.amount
                      /\ u.balance_before = t.balance_before
                      /\ u.balance_after = t.balance_after
       /\ \A r \in ReqIds :
            (reqs[r].op = "topup_callback" /\ RunsOn(r) /\ reqs[r].arg # "SUCCESS")
                => UNCHANGED wallets]_vars

\* C23: in the step that makes a TOPUP transaction COMPLETED, the row's
\* balance_before is the wallet's balance before that step and its
\* balance_after the wallet's balance after it.
C23_TopupSnapshotAtCredit ==
    [][\A i \in 1..Len(transactions) :
          (/\ transactions[i].type = "TOPUP" /\ transactions[i].status = "PENDING"
           /\ transactions'[i].status = "COMPLETED") =>
              /\ transactions'[i].balance_before = wallets[transactions[i].wallet].balance
              /\ transactions'[i].balance_after = wallets'[transactions[i].wallet].balance]_vars

\* The signed amounts of the COMPLETED transactions recorded against wallet u.
LedgerSum(u) ==
    SumSeq([i \in 1..Len(transactions) |->
               IF transactions[i].wallet = u /\ transactions[i].status = "COMPLETED"
               THEN transactions[i].amount ELSE 0],
           Len(transactions))

\* C24: in every committed state each wallet's balance is its creation
\* balance, zero, plus the signed amounts of the COMPLETED transactions
\* recorded against it.
C24_LedgerReconstructsBalance ==
    \A u \in DOMAIN wallets : wallets[u].balance = LedgerSum(u)

\* The commission a sale credited to commission_balance when it was made:
\* price * rate of the tier the selling handler held.
CreditedAtSale(id) ==
    IF id = SeedSaleId
    THEN Commission(WIFI_PRICE, "SILVER")
    ELSE LET r == CHOOSE x \in ReqIds : TxnId(x, 1) = id
         IN  Commission(SalePrice(r), reqs[r].ag.tier)

\* C25: every sale in a commission listing is listed with the commission
\* that was credited for it at sale time.
C25_ListedCommissionIsCredited ==
    \A r \in ReqIds :
        (reqs[r].op = "get_commissions" /\ reqs[r].pc = "done") =>
            \A e \in reqs[r].listing : e.commission = CreditedAtSale(e.id)

\* C26: a voucher's status changes only UNUSED -> ACTIVE and ACTIVE ->
\* EXPIRED or DEPLETED; the activating step sets expires_at = activated_at +
\* validity_hours; a voucher that is no longer UNUSED keeps its activated_at
\* and expires_at (it is activated at most once); and an activation request
\* that finds the voucher not UNUSED is rejected with no table changed.
C26_VoucherStatusMoves ==
    [][/\ \A i \in 1..Len(vouchers) :
            LET v == vouchers[i]
                w == vouchers'[i]
            IN  /\ Len(vouchers') >= i
                /\ v.status # w.status =>
                      \/ v.status = "UNUSED" /\ w.status = "ACTIVE"
                            /\ w.expires_at = w.activated_at + VALIDITY_HOURS
                      \/ v.status = "ACTIVE" /\ w.status \in {"EXPIRED", "DEPLETED"}
                /\ v.status # "UNUSED" =>
                      w.activated_at = v.activated_at /\ w.expires_at = v.expires_at
       /\ \A r \in ReqIds :
            (/\ reqs[r].op = "activate_voucher" /\ reqs[r].pc = "start" /\ RunsOn(r)
             /\ reqs[r].tid \in 1..Len(vouchers)
             /\ vouchers[reqs[r].tid].status # "UNUSED")
                => /\ reqs'[r].pc = "done" /\ reqs'[r].resp.status = "rejected"
                   /\ UNCHANGED db]_vars

ElectricityBuyOps == {"purchase_electricity", "w_purchase_electricity"}

\* C27: a purchase of an UNLIMITED electricity package does not end in a
\* server error; one that ends in success has credited the meter; and the
\* step that credits the meter leaves unlimited_expires_at later than the
\* time of the purchase and not earlier than it was before.
C27_UnlimitedExtendsExpiry ==
    [][\A r \in ReqIds :
          (reqs[r].op \in ElectricityBuyOps /\ reqs[r].arg = "UNLIMITED" /\ RunsOn(r)) =>
              /\ reqs'[r].resp.status # "error"
              /\ Succeeds(r) => reqs'[r].credited
              /\ (reqs'[r].credited /\ ~reqs[r].credited) =>
                    /\ meters'[reqs[r].meter].unlimited_expires_at > reqs'[r].now
                    /\ meters'[reqs[r].meter].unlimited_expires_at
                          >= meters[reqs[r].meter].unlimited_expires_at]_vars

\* C28: after every step the users and the wallets are the same set of phone
\* numbers (each user has exactly one wallet), a wallet that appears in a
\* step appears with balance zero, and a sale that succeeds leaves its
\* customer with a user row and a wallet.
C28_OneWalletPerUser ==
    [][/\ DOMAIN wallets' = DOMAIN users'
       /\ \A u \in DOMAIN wallets' \ DOMAIN wallets : wallets'[u].balance = 0
       /\ \A r \in ReqIds :
            (reqs[r].op \in SaleOps /\ Succeeds(r)) =>
                reqs[r].to \in DOMAIN users' \cap DOMAIN wallets']_vars

\* C29: no step of an agent sale raises the kwh_balance or changes the
\* unlimited expiry of a meter owned by someone other than the sale's
\* customer.
C29_SaleCreditsCustomersMeter ==
    [][\A r \in ReqIds : \A m \in DOMAIN meters :
          (reqs[r].op \in SaleOps /\ RunsOn(r) /\ meters[m].user # reqs[r].to) =>
              /\ meters'[m].kwh_balance <= meters[m].kwh_balance
              /\ meters'[m].unlimited_expires_at = meters[m].unlimited_expires_at]_vars

\* C30: at most one transaction holds a given idempotency key, whatever the
\* types of the operations that sent it, and no step of a request whose key
\* a stored transaction already holds changes any table.
C30_KeysAreGlobal ==
    [][/\ \A k \in Keys : Cardinality({i \in 1..Len(transactions') :
                                          transactions'[i].idempotency_key = k}) <= 1
       /\ \A r \in ReqIds : (KeyStored(r) /\ RunsOn(r)) => UNCHANGED db]_vars

\* A top-up holds the key; a WiFi purchase sent with the same key passed
\* its lookup before the top-up was committed and was refused at its flush.
C30_Witness ==
    \E r1, r2 \in ReqIds :
        /\ reqs[r1].op = "initiate_topup" /\ reqs[r1].resp.status = "pending"
        /\ reqs[r2].op = "purchase_wifi" /\ reqs[r2].key = reqs[r1].key
        /\ reqs[r2].pc = "done" /\ reqs[r2].resp.detail = "integrity_error"
        /\ Cardinality(TxnIndexesWithKey(reqs[r1].key)) = 1
        /\ vouchers = <<>>

\* The whole number of cents nearest to the float d.
RECURSIVE BigValue(_)
BigValue(a) == IF a = <<>> THEN 0 ELSE Head(a) + LIMB * BigValue(Tail(a))

NearestCents(d) ==
    LET n == Trim(BigMulCarry(d.m, 100, 0))
    IN  IF d.e >= 0 THEN BigValue(BigShiftLeft(n, d.e))
        ELSE BigValue(BigShiftRight(Trim(BigAddCarry(n, BigShiftLeft(<<1>>, (0 - d.e) - 1), 0)),
                                   0 - d.e).q)

\* d is what a two-place decimal reads as, i.e. float of a whole number of cents.
IsCents(d) == d = ToDouble(NearestCents(d), 100)

\* C31: every balance the backends store is a whole number of cents with no
\* floating-point step in its computation: the float and commission balances
\* the worker's process_sale writes are exactly two-place decimals.
C31_BalancesAreExactCents ==
    /\ IsCents(agent.float_balance)
    /\ IsCents(agent.commission_balance)

\* C32: transfers neither create nor destroy money: whatever transfer_funds
\* requests run, in whatever interleaving, the wallet balances add up to
\* what they added up to before.
C32_TransfersConserveTotal ==
    wallets["u1"].balance + wallets["u2"].balance
        = InitBalance["u1"] + InitBalance["u2"]

\* C33: a top-up transaction credits its wallet at most once and by its
\* recorded amount: a step of topup_callback changes a wallet only while the
\* transaction is still PENDING, and then raises that wallet's balance by
\* exactly the transaction's amount.
C33_TopupCreditsOnce ==
    [][\A r \in ReqIds :
          (reqs[r].op = "topup_callback" /\ RunsOn(r) /\ wallets' # wallets) =>
              \E t \in TxnsWithId(reqs[r].tid) :
                  /\ t.status = "PENDING"
                  /\ wallets'[t.wallet].balance = wallets[t.wallet].balance + t.amount]_vars

\* C34: the balance of a FROZEN or CLOSED wallet is the same after every
\* step of a purchase, a transfer, a top-up callback or a commission
\* withdrawal.
C34_FrozenBalanceUnchanged ==
    [][\A u \in RegisteredUsers :
          wallets[u].status \in {"FROZEN", "CLOSED"} =>
              wallets'[u].balance = wallets[u].balance]_vars

\* C35: in every state each wallet's daily_spent is at most its daily_limit
\* and its monthly_spent at most its monthly_limit, whatever transfers and
\* WiFi or electricity purchases have run.
C35_SpentWithinLimits ==
    \A u \in RegisteredUsers :
        /\ wallets[u].daily_spent <= DAILY_LIMIT
        /\ wallets[u].monthly_spent <= MONTHLY_LIMIT

\* C36: a transfer made on a later calendar day than the sender wallet's
\* last_daily_reset is checked against a daily_spent of zero, and one made in
\* a later month than last_monthly_reset against a monthly_spent of zero:
\* no such transfer of an amount within the limit is rejected for the limit
\* it starts afresh.
C36_LimitsStartAfreshEachDay ==
    [][\A r \in ReqIds :
          LET q == reqs[r]
              w == wallets[q.user]
          IN  (q.op = "transfer_funds" /\ q.pc = "start" /\ RunsOn(r)) =>
                /\ (w.last_daily_reset < q.now /\ q.amount <= DAILY_LIMIT)
                      => reqs'[r].resp.detail # "daily_limit_exceeded"
                /\ ((\/ (w.last_monthly_reset \div 100) % 100 < (q.now \div 100) % 100
                     \/ w.last_monthly_reset \div 10000 < q.now \div 10000)
                    /\ q.amount <= MONTHLY_LIMIT)
                      => reqs'[r].resp.detail # "monthly_limit_exceeded"]_vars

\* The user whose request stored transaction t: the agent for an agent sale,
\* the wallet's owner otherwise.
KeyUser(t) == IF t.agent THEN AgentUser ELSE t.wallet

\* C37: a request answered from a stored transaction (already processed) is
\* answered from a transaction of the caller's own: the transaction id in a
\* replay response never belongs to another user's request.
C37_ReplayIsCallersOwn ==
    [][\A r \in ReqIds :
          (RunsOn(r) /\ reqs'[r].resp.status = "already_processed") =>
              \A t \in TxnsWithId(reqs'[r].resp.txn) : KeyUser(t) = reqs[r].user]_vars

\* C38: no step raises the kwh_balance of a TAMPERED meter, and no step of
\* an electricity purchase or agent sale for a TAMPERED meter debits a
\* wallet or the agent's float.
C38_TamperedMeterNeverCredited ==
    [][/\ \A m \in DOMAIN meters :
            meters[m].status = "TAMPERED" =>
                meters'[m].kwh_balance <= meters[m].kwh_balance
       /\ \A r \in ReqIds :
            (/\ RunsOn(r) /\ reqs[r].meter \in DOMAIN meters
             /\ meters[reqs[r].meter].status = "TAMPERED") =>
                /\ \A u \in DOMAIN wallets : wallets'[u].balance >= wallets[u].balance
                /\ agent'.float_balance >= agent.float_balance]_vars

====
